---------------------------- MODULE Spec2Model ----------------------------
(***************************************************************************)
(* Dispatch-table maintenance of c10::impl::OperatorEntry.                 *)
(*                                                                         *)
(* State: the kernel map kernels_, the dispatch table dispatchTable_ of    *)
(* one operator entry, and the dispatcher's backendFallbackKernels_.       *)
(* Dispatch keys are the integer values of the enum in                     *)
(* c10/core/DispatchKey.h.  The non-mobile build without                   *)
(* C10_DISPATCHER_ONE_KERNEL_PER_DISPATCH_KEY is modelled.                 *)
(***************************************************************************)
EXTENDS Integers, Sequences, FiniteSets, TLC

(***************************************************************************)
(* BackendComponent (DispatchKey.h:31-89)                                  *)
(***************************************************************************)
InvalidBit == 0
CPUBit == 1
CUDABit == 2
HIPBit == 3
XLABit == 4
VEBit == 9
LazyBit == 10
EndOfBackendKeys == 14

(***************************************************************************)
(* DispatchKey (DispatchKey.h:130-599)                                     *)
(***************************************************************************)
Undefined == 0
Dense == 1
FPGA == 2
Quantized == 6
Sparse == 9
EndOfNonCustomizableBackends == 11
NestedTensor == 12
AutogradOther == 23
AutogradFunctionality == 24
AutogradNestedTensor == 25
Tracer == 26
EndOfFunctionalityKeys == 40
StartOfDenseBackends == 41
CPU == 42
CUDA == 43
HIP == 44
XLA == 45
EndOfDenseBackends == 55
StartOfQuantizedBackends == 56
EndOfQuantizedBackends == 70
StartOfSparseBackends == 71
SparseCPU == 72
EndOfSparseBackends == 85
StartOfNestedTensorBackends == 86
EndOfNestedTensorBackends == 100
StartOfAutogradBackends == 101
AutogradCPU == 102
AutogradCUDA == 103
AutogradXLA == 105
EndOfAutogradBackends == 115
EndOfRuntimeBackendKeys == 115
Autograd == 116
CompositeImplicitAutograd == 117
CompositeExplicitAutograd == 118
CompositeExplicitAutogradNonFunctional == 119
StartOfAliasKeys == 116
EndOfAliasKeys == 119

\* c10::optional<DispatchKey> without a value (a catch-all registration)
nullopt == -1

isAliasDispatchKey(k) ==
    k >= StartOfAliasKeys /\ k <= EndOfAliasKeys

isPerBackendFunctionalityKey(k) ==
    k = Dense \/ k = Quantized \/ k = Sparse
        \/ k = AutogradFunctionality \/ k = NestedTensor

num_functionality_keys == EndOfFunctionalityKeys

num_backends == EndOfBackendKeys

\* a conversion whose last range has no upper end
toBackendComponentOpenEnded(k) ==
    IF k >= StartOfDenseBackends /\ k <= EndOfDenseBackends
    THEN k - StartOfDenseBackends
    ELSE IF k >= StartOfQuantizedBackends /\ k <= EndOfQuantizedBackends
    THEN k - StartOfQuantizedBackends
    ELSE IF k >= StartOfSparseBackends /\ k <= EndOfSparseBackends
    THEN k - StartOfSparseBackends
    ELSE IF k >= StartOfNestedTensorBackends /\ k <= EndOfNestedTensorBackends
    THEN k - StartOfNestedTensorBackends
    ELSE IF k >= StartOfAutogradBackends
    THEN k - StartOfAutogradBackends
    ELSE InvalidBit

toBackendComponent(k) ==
    IF k >= StartOfDenseBackends /\ k <= EndOfDenseBackends
    THEN k - StartOfDenseBackends
    ELSE IF k >= StartOfQuantizedBackends /\ k <= EndOfQuantizedBackends
    THEN k - StartOfQuantizedBackends
    ELSE IF k >= StartOfSparseBackends /\ k <= EndOfSparseBackends
    THEN k - StartOfSparseBackends
    ELSE IF k >= StartOfNestedTensorBackends /\ k <= EndOfNestedTensorBackends
    THEN k - StartOfNestedTensorBackends
    ELSE IF k >= StartOfAutogradBackends /\ k <= EndOfAutogradBackends
    THEN k - StartOfAutogradBackends
    ELSE InvalidBit

toFunctionalityKey(k) ==
    IF k <= EndOfFunctionalityKeys THEN k
    ELSE IF k <= EndOfDenseBackends THEN Dense
    ELSE IF k <= EndOfQuantizedBackends THEN Quantized
    ELSE IF k <= EndOfSparseBackends THEN Sparse
    ELSE IF k <= EndOfNestedTensorBackends THEN NestedTensor
    ELSE IF k <= EndOfAutogradBackends THEN AutogradFunctionality
    ELSE Undefined

\* a recomposition that takes the ranges in the order of its tests, Sparse
\* before Quantized
toRuntimePerBackendFunctionalityKeyInTestOrder(functionality_k, backend_k) ==
    IF functionality_k = Dense THEN StartOfDenseBackends + backend_k
    ELSE IF functionality_k = Sparse THEN StartOfQuantizedBackends + backend_k
    ELSE IF functionality_k = Quantized THEN StartOfSparseBackends + backend_k
    ELSE IF functionality_k = NestedTensor
    THEN StartOfNestedTensorBackends + backend_k
    ELSE IF functionality_k = AutogradFunctionality
    THEN StartOfAutogradBackends + backend_k
    ELSE Undefined

toRuntimePerBackendFunctionalityKey(functionality_k, backend_k) ==
    IF functionality_k = Dense THEN StartOfDenseBackends + backend_k
    ELSE IF functionality_k = Sparse THEN StartOfSparseBackends + backend_k
    ELSE IF functionality_k = Quantized THEN StartOfQuantizedBackends + backend_k
    ELSE IF functionality_k = NestedTensor
    THEN StartOfNestedTensorBackends + backend_k
    ELSE IF functionality_k = AutogradFunctionality
    THEN StartOfAutogradBackends + backend_k
    ELSE Undefined

(***************************************************************************)
(* DispatchKeySet: a bitmask with one bit per functionality key and one    *)
(* bit per backend component, held as the two sets of bits that are set.   *)
(***************************************************************************)
BackendBits == (InvalidBit + 1) .. EndOfBackendKeys

FunctionalityBits == (Undefined + 1) .. (EndOfFunctionalityKeys - 1)

EmptyKeySet == [f |-> {}, b |-> {}]

DispatchKeySet(k) ==
    IF k = Undefined THEN EmptyKeySet
    ELSE IF k <= EndOfFunctionalityKeys THEN [f |-> {k}, b |-> {}]
    ELSE IF k <= EndOfRuntimeBackendKeys
    THEN [f |-> {toFunctionalityKey(k)}, b |-> {toBackendComponent(k)}]
    ELSE EmptyKeySet

FULL == [f |-> FunctionalityBits, b |-> BackendBits]

has(ks, k) ==
    LET bits == DispatchKeySet(k)
    IN  bits.f \subseteq ks.f /\ bits.b \subseteq ks.b

\* the keys a range-for over a DispatchKeySet visits: a functionality that
\* is not per-backend yields itself, a per-backend functionality yields one
\* runtime key per backend bit of the set
KeysOf(ks) ==
    {k \in ks.f : ~isPerBackendFunctionalityKey(k)}
    \cup {toRuntimePerBackendFunctionalityKey(fb[1], fb[2]) :
            fb \in {x \in ks.f : isPerBackendFunctionalityKey(x)} \X ks.b}

\* every key with a slot of its own in the runtime operator table
RuntimeKeys == KeysOf(FULL)

Slots == {Undefined} \cup RuntimeKeys

\* getDispatchTableIndexForDispatchKey: -1 for a key without a slot
getDispatchTableIndexForDispatchKey(k) ==
    IF k \in Slots THEN k ELSE -1

(***************************************************************************)
(* Key sets of c10/core/DispatchKeySet.h and DispatchKey.cpp, which the    *)
(* entry calls but which are not part of the sources at hand: stated from  *)
(* the specification and from the notes in DispatchKey.h,                  *)
(* KernelFunction.h and OperatorEntry.cpp.                                 *)
(***************************************************************************)
\* backends that have no Autograd<Backend> key of their own: the keys
\* _AutogradHIP and _AutogradVE are "not currently used" (DispatchKey.h:538,544)
NoDedicatedAutogradBits == {HIPBit, VEBit}

\* Note [Non-Customizable Backend Keys]: the functionalities up to
\* EndOfNonCustomizableBackends are the backend functionalities
BackendFunctionalities == (Undefined + 1) .. EndOfNonCustomizableBackends

backend_dispatch_keyset == [f |-> BackendFunctionalities, b |-> BackendBits]

autograd_dispatch_keyset ==
    [f |-> {AutogradFunctionality, AutogradOther, AutogradNestedTensor},
     b |-> BackendBits]

math_dispatch_keyset ==
    [f |-> backend_dispatch_keyset.f \cup autograd_dispatch_keyset.f,
     b |-> BackendBits]

\* every backend but the functional ones, XLA and Lazy
non_functional_backend_dispatch_keyset ==
    [f |-> BackendFunctionalities, b |-> BackendBits \ {XLABit, LazyBit}]

\* the backends that funnel into AutogradOther, for any functionality
autogradother_backends ==
    [f |-> BackendFunctionalities, b |-> NoDedicatedAutogradBits]

getRuntimeDispatchKeySet(t) ==
    IF t = Autograd THEN autograd_dispatch_keyset
    ELSE IF t = CompositeImplicitAutograd THEN math_dispatch_keyset
    ELSE IF t = CompositeExplicitAutograd THEN backend_dispatch_keyset
    ELSE IF t = CompositeExplicitAutogradNonFunctional
    THEN non_functional_backend_dispatch_keyset
    ELSE IF isPerBackendFunctionalityKey(t) THEN [f |-> {t}, b |-> BackendBits]
    ELSE DispatchKeySet(t)

\* runtimeDispatchKeySetHas(alias, k) for every alias key and every key k,
\* tabulated
AliasKeys ==
    [alias \in StartOfAliasKeys .. EndOfAliasKeys |->
        {k \in Undefined .. EndOfAliasKeys : has(getRuntimeDispatchKeySet(alias), k)}]

isIncludedInAlias(k, alias) ==
    k # Undefined /\ k \in AliasKeys[alias]

isBackendDispatchKey(t) ==
    t # Undefined /\ ~isAliasDispatchKey(t) /\ has(backend_dispatch_keyset, t)

getAutogradKeyFromBackend(b) ==
    IF b = InvalidBit \/ b \in NoDedicatedAutogradBits
    THEN AutogradOther
    ELSE toRuntimePerBackendFunctionalityKey(AutogradFunctionality, b)

\* the keys of the backend an autograd key is derived from
getBackendKeySetFromAutograd(t) ==
    IF t = AutogradOther THEN autogradother_backends
    ELSE IF /\ toFunctionalityKey(t) = AutogradFunctionality
            /\ t > StartOfAutogradBackends
            /\ toBackendComponent(t) \notin NoDedicatedAutogradBits
    THEN [f |-> {Dense, Quantized, Sparse}, b |-> {toBackendComponent(t)}]
    ELSE EmptyKeySet

(***************************************************************************)
(* KernelFunction values.  An AnnotatedKernel is identified with its       *)
(* KernelFunction; a registered kernel is named by the key of kernels_ it  *)
(* is registered for and a number.                                         *)
(***************************************************************************)
Kernel(k, i) == [tag |-> "kernel", id |-> <<k, i>>]

\* a default-constructed KernelFunction: isValid() is false
missingKernel == [tag |-> "missing", id |-> <<>>]

ambiguousAutogradOtherKernel ==
    [tag |-> "ambiguous_autogradother", id |-> <<>>]

\* the kernel of the dispatcher's backend fallback for key k
FallbackKernel(k) == [tag |-> "fallback", id |-> <<k>>]

isValid(kernel) == kernel.tag # "missing"

(***************************************************************************)
(* OperatorEntry queries.  ks is kernels_: a function whose domain is the  *)
(* set of keys present in the map, to a list of kernels, front first.      *)
(***************************************************************************)
\* the query asking for a kernel whose key is the key set, not in it
hasKernelForWholeDispatchKeySet(ks, keyset) ==
    \E k \in DOMAIN ks : ~isAliasDispatchKey(k) /\ DispatchKeySet(k) = keyset

\* the query with the key set left out of the test
hasKernelForSomeDispatchKey(ks, keyset) ==
    \E k \in DOMAIN ks : ~isAliasDispatchKey(k)

\* the query with an alias key standing for the keys it implies
hasKernelForAnyDispatchKeyOrAlias(ks, keyset) ==
    \E k \in DOMAIN ks :
        IF isAliasDispatchKey(k)
        THEN KeysOf(getRuntimeDispatchKeySet(k)) \cap KeysOf(keyset) # {}
        ELSE has(keyset, k)

hasKernelForAnyDispatchKey(ks, keyset) ==
    \E k \in DOMAIN ks : ~isAliasDispatchKey(k) /\ has(keyset, k)

hasKernelForDispatchKey(ks, k) == k \in DOMAIN ks

\* "none" stands for nullptr
getKernelForDispatchKey(ks, dispatch_key) ==
    IF dispatch_key \in DOMAIN ks
    THEN <<Head(ks[dispatch_key])>>
    ELSE <<>>

computeDispatchTableEntryWithDebug(ks, fallbacks, dispatch_key) ==
    LET direct_registration == getKernelForDispatchKey(ks, dispatch_key)
        nonfunctional_registration ==
            getKernelForDispatchKey(ks, CompositeExplicitAutogradNonFunctional)
        default_backend_registration ==
            getKernelForDispatchKey(ks, CompositeExplicitAutograd)
        has_backend_kernel ==
            \/ hasKernelForAnyDispatchKey(ks, getBackendKeySetFromAutograd(dispatch_key))
            \/ hasKernelForDispatchKey(ks, CompositeExplicitAutograd)
        math_registration == getKernelForDispatchKey(ks, CompositeImplicitAutograd)
        autograd_registration == getKernelForDispatchKey(ks, Autograd)
        dispatch_ix == getDispatchTableIndexForDispatchKey(dispatch_key)
    IN  IF direct_registration # <<>>
        THEN <<direct_registration[1], "kernel">>
        ELSE IF /\ nonfunctional_registration # <<>>
                /\ \/ dispatch_key = Undefined
                   \/ isIncludedInAlias(dispatch_key, CompositeExplicitAutogradNonFunctional)
        THEN <<nonfunctional_registration[1], "default backend kernel">>
        ELSE IF /\ default_backend_registration # <<>>
                /\ \/ dispatch_key = Undefined
                   \/ isIncludedInAlias(dispatch_key, CompositeExplicitAutograd)
        THEN <<default_backend_registration[1], "default backend kernel">>
        ELSE IF /\ math_registration # <<>>
                /\ \/ dispatch_key = Undefined
                   \/ isIncludedInAlias(dispatch_key, CompositeImplicitAutograd)
                /\ dispatch_key = AutogradOther
                /\ hasKernelForAnyDispatchKey(ks, autogradother_backends)
        THEN <<ambiguousAutogradOtherKernel, "ambiguous autogradother">>
        ELSE IF /\ math_registration # <<>>
                /\ \/ dispatch_key = Undefined
                   \/ isIncludedInAlias(dispatch_key, CompositeImplicitAutograd)
                /\ ~has_backend_kernel
        THEN <<math_registration[1], "math kernel">>
        ELSE IF /\ autograd_registration # <<>>
                /\ isIncludedInAlias(dispatch_key, Autograd)
        THEN <<autograd_registration[1], "autograd kernel">>
        ELSE IF dispatch_ix < 0
        THEN <<missingKernel, "backend fallback not registered on mobile">>
        ELSE IF isValid(fallbacks[dispatch_ix])
        THEN <<fallbacks[dispatch_ix], "backend fallback">>
        ELSE <<missingKernel, "missing">>

\* the entry with the CompositeImplicitAutograd kernel taken before the
\* kernels of the explicit aliases
computeDispatchTableEntryImplicitFirst(ks, fallbacks, dispatch_key) ==
    IF /\ dispatch_key \notin DOMAIN ks
       /\ CompositeImplicitAutograd \in DOMAIN ks
       /\ isIncludedInAlias(dispatch_key, CompositeImplicitAutograd)
    THEN Head(ks[CompositeImplicitAutograd])
    ELSE computeDispatchTableEntryWithDebug(ks, fallbacks, dispatch_key)[1]

\* the entry with the backend fallback taken before the kernel of the
\* Autograd alias
computeDispatchTableEntryFallbackFirst(ks, fallbacks, dispatch_key) ==
    LET entry == computeDispatchTableEntryWithDebug(ks, fallbacks, dispatch_key)
    IN  IF /\ entry[2] = "autograd kernel"
           /\ isValid(fallbacks[getDispatchTableIndexForDispatchKey(dispatch_key)])
        THEN fallbacks[getDispatchTableIndexForDispatchKey(dispatch_key)]
        ELSE entry[1]

computeDispatchTableEntry(ks, fallbacks, dispatch_key) ==
    computeDispatchTableEntryWithDebug(ks, fallbacks, dispatch_key)[1]

(***************************************************************************)
(* Dispatch-table updates.  tbl is dispatchTable_, indexed by slot.        *)
(***************************************************************************)
updateDispatchTableEntry_(tbl, ks, fallbacks, dispatch_key) ==
    IF getDispatchTableIndexForDispatchKey(dispatch_key) = -1
    THEN tbl
    ELSE [tbl EXCEPT ![getDispatchTableIndexForDispatchKey(dispatch_key)] =
                computeDispatchTableEntry(ks, fallbacks, dispatch_key)]

\* for (auto k : keyset) updateDispatchTableEntry_(dispatcher, k): every
\* entry is computed from kernels_ and the fallbacks alone, so the loop
\* leaves each slot of the set recomputed and every other slot as it was
updateEachEntry(tbl, ks, fallbacks, keys) ==
    LET written == {getDispatchTableIndexForDispatchKey(k) : k \in keys}
    IN  [s \in DOMAIN tbl |->
            IF s \in written
            THEN computeDispatchTableEntry(ks, fallbacks, s)
            ELSE tbl[s]]

\* KernelFunction::makeFallthrough() as a kernel of the entry
fallthroughKernel == [tag |-> "fallthrough", id |-> <<>>]

isFallthrough(kernel) == kernel.tag = "fallthrough"

\* setOperatorHasFallthroughForKey that ignores the Undefined key
setOperatorHasFallthroughForRuntimeKey(flags, tbl, keys) ==
    [s \in DOMAIN flags |->
        IF s \in keys /\ s # Undefined THEN isFallthrough(tbl[s]) ELSE flags[s]]

\* dispatchKeyExtractor_.setOperatorHasFallthroughForKey(k,
\* dispatchTable_[k].isFallthrough()) for each k of keys, the keys
\* updateDispatchTableEntry_ has been called for; tbl is the table after
\* the assignments
setOperatorHasFallthroughForKey(flags, tbl, keys) ==
    [s \in DOMAIN flags |->
        IF s \in keys THEN isFallthrough(tbl[s]) ELSE flags[s]]

\* the keys updated without the entry of the backend's autograd key
EntriesUpdatedButAutograd(dispatch_key) ==
    IF dispatch_key = Undefined THEN {Undefined}
    ELSE KeysOf(getRuntimeDispatchKeySet(dispatch_key))
         \cup (IF \/ dispatch_key = CompositeImplicitAutograd
                  \/ dispatch_key = CompositeExplicitAutograd
                  \/ dispatch_key = CompositeExplicitAutogradNonFunctional
               THEN {Undefined} ELSE {})

\* an update that also passes the key it is given, alias or not, to
\* updateDispatchTableEntry_
EntriesUpdatedWithKey(dispatch_key) ==
    {dispatch_key} \cup EntriesUpdatedButAutograd(dispatch_key)
    \cup (IF isBackendDispatchKey(dispatch_key)
          THEN {getAutogradKeyFromBackend(toBackendComponent(dispatch_key))}
          ELSE {})

\* an update that leaves the Undefined entry to the full recomputation
EntriesUpdatedButUndefined(dispatch_key) ==
    IF dispatch_key = Undefined THEN {Undefined}
    ELSE KeysOf(getRuntimeDispatchKeySet(dispatch_key))
         \cup (IF isBackendDispatchKey(dispatch_key)
               THEN {getAutogradKeyFromBackend(toBackendComponent(dispatch_key))}
               ELSE {})

\* the keys updateDispatchTable_(dispatch_key) calls
\* updateDispatchTableEntry_ for
EntriesUpdated(dispatch_key) ==
    IF dispatch_key = Undefined THEN {Undefined}
    ELSE KeysOf(getRuntimeDispatchKeySet(dispatch_key))
         \cup (IF \/ dispatch_key = CompositeImplicitAutograd
                  \/ dispatch_key = CompositeExplicitAutograd
                  \/ dispatch_key = CompositeExplicitAutogradNonFunctional
               THEN {Undefined} ELSE {})
         \cup (IF isBackendDispatchKey(dispatch_key)
               THEN {getAutogradKeyFromBackend(toBackendComponent(dispatch_key))}
               ELSE {})

updateDispatchTable_(tbl, ks, fallbacks, dispatch_key) ==
    IF dispatch_key = Undefined
    THEN updateDispatchTableEntry_(tbl, ks, fallbacks, dispatch_key)
    ELSE updateEachEntry(tbl, ks, fallbacks, EntriesUpdated(dispatch_key))

\* the keys the loop of updateDispatchTableFull_ over DispatchKeySet(FULL)
\* calls updateDispatchTableEntry_ for
FullEntriesUpdated == UNION {EntriesUpdated(k) : k \in KeysOf(FULL)}

\* a recomputation of the Undefined entry alone, without the loop over
\* DispatchKeySet(FULL)
updateDispatchTableUndefined_(tbl, ks, fallbacks) ==
    updateDispatchTable_(tbl, ks, fallbacks, Undefined)

\* updateDispatchTable_(Undefined), then updateDispatchTable_(k) for every
\* k of DispatchKeySet(FULL)
updateDispatchTableFull_(tbl, ks, fallbacks) ==
    updateEachEntry(updateDispatchTable_(tbl, ks, fallbacks, Undefined),
                    ks, fallbacks, FullEntriesUpdated)

(***************************************************************************)
(* Registration and deregistration: the new kernels_ and dispatchTable_.   *)
(***************************************************************************)
\* k.emplace_back(kernel): the kernel put behind the ones registered before
emplace_back(ks, k, kernel) ==
    [x \in DOMAIN ks \cup {k} |->
        IF x = k
        THEN (IF k \in DOMAIN ks THEN ks[k] ELSE <<>>) \o <<kernel>>
        ELSE ks[x]]

\* k.emplace_front(kernel) on the list of key k, created if absent
emplace_front(ks, k, kernel) ==
    [x \in DOMAIN ks \cup {k} |->
        IF x = k
        THEN <<kernel>> \o (IF k \in DOMAIN ks THEN ks[k] ELSE <<>>)
        ELSE ks[x]]

\* kernels_.erase(found) whether or not the list has become empty
eraseList(ks, k, pos) == [x \in DOMAIN ks \ {k} |-> ks[x]]

\* k.erase(it) for the iterator at position pos of the list of key k, and
\* kernels_.erase(found) when the list becomes empty
erase(ks, k, pos) ==
    LET rest == SubSeq(ks[k], 1, pos - 1) \o SubSeq(ks[k], pos + 1, Len(ks[k]))
    IN  IF rest = <<>>
        THEN [x \in DOMAIN ks \ {k} |-> ks[x]]
        ELSE [ks EXCEPT ![k] = rest]

\* a registerKernel that keeps a catch-all kernel in a list of its own,
\* under the absent key
registerKernelCatchAllApart(ks, tbl, fallbacks, dispatch_key, kernel) ==
    LET ks1 == emplace_front(ks, dispatch_key, kernel)
    IN  [kernels |-> ks1,
         dispatchTable |->
            IF dispatch_key # nullopt
            THEN updateDispatchTable_(tbl, ks1, fallbacks, dispatch_key)
            ELSE updateDispatchTableFull_(tbl, ks1, fallbacks)]

registerKernel(ks, tbl, fallbacks, dispatch_key, kernel) ==
    LET k == IF dispatch_key # nullopt THEN dispatch_key
             ELSE CompositeImplicitAutograd
        ks1 == emplace_front(ks, k, kernel)
    IN  [kernels |-> ks1,
         dispatchTable |->
            IF dispatch_key # nullopt
            THEN updateDispatchTable_(tbl, ks1, fallbacks, dispatch_key)
            ELSE updateDispatchTableFull_(tbl, ks1, fallbacks)]

\* a deregistration that erases the kernel and leaves the dispatch table
\* as it was
deregisterKernelWithoutUpdate_(ks, tbl, fallbacks, dispatch_key, pos) ==
    LET dk == IF dispatch_key # nullopt THEN dispatch_key
              ELSE CompositeImplicitAutograd
    IN  [kernels |-> erase(ks, dk, pos), dispatchTable |-> tbl]

\* a registerKernel that tests the signature and the schema after the
\* insertion
registerKernelThenThrow(error, ks, tbl, fallbacks, dispatch_key, kernel) ==
    registerKernel(ks, tbl, fallbacks, dispatch_key, kernel)

\* registerKernel with its tests: a failed TORCH_CHECK throws before the
\* insertion and the table update
registerKernelOrThrow(error, ks, tbl, fallbacks, dispatch_key, kernel) ==
    IF error # ""
    THEN [kernels |-> ks, dispatchTable |-> tbl]
    ELSE registerKernel(ks, tbl, fallbacks, dispatch_key, kernel)

deregisterKernel_(ks, tbl, fallbacks, dispatch_key, pos) ==
    LET dk == IF dispatch_key # nullopt THEN dispatch_key
              ELSE CompositeImplicitAutograd
        ks1 == erase(ks, dk, pos)
    IN  [kernels |-> ks1,
         dispatchTable |-> updateDispatchTable_(tbl, ks1, fallbacks, dk)]

updateFallback(tbl, ks, fallbacks, dispatch_key) ==
    updateDispatchTable_(tbl, ks, fallbacks, dispatch_key)

(***************************************************************************)
(* Schemas and C++ signatures.  A FunctionSchema and a CppSignature are    *)
(* values compared for equality; nullptr and nullopt stand for an absent   *)
(* inferred schema, declared schema or signature.                          *)
(***************************************************************************)
\* std::unique_ptr<FunctionSchema> that holds no schema
nullptr == 0

\* TRUE when findSchemaDifferences reports a difference
findSchemaDifferences(from_def, inferred) == from_def # inferred

\* TRUE when the TORCH_CHECK of checkSchema fails
checkSchema(from_def, inferred) == findSchemaDifferences(from_def, inferred)

\* a cross-check that looks at the active kernel of each key only
registerSchemaMismatchActive(anns, schema) ==
    \E k \in DOMAIN anns :
        /\ anns[k][1].inferred_function_schema # nullptr
        /\ checkSchema(schema, anns[k][1].inferred_function_schema)

\* the loop of registerSchema finds a kernel whose inferred schema differs:
\* every list entry of every key is looked at
registerSchemaMismatch(anns, schema) ==
    \E k \in DOMAIN anns : \E j \in 1 .. Len(anns[k]) :
        /\ anns[k][j].inferred_function_schema # nullptr
        /\ checkSchema(schema, anns[k][j].inferred_function_schema)

\* a registerSchema without the assertion that no schema is registered
registerSchemaWithoutAssert(current, anns, schema) ==
    IF registerSchemaMismatch(anns, schema)
    THEN [schema |-> current, error |-> "schema mismatch"]
    ELSE [schema |-> schema, error |-> ""]

\* OperatorEntry::registerSchema: schema_ after the call and the error thrown;
\* a failed assertion or TORCH_CHECK throws before schema_ is assigned
registerSchema(current, anns, schema) ==
    IF current # nullopt
    THEN [schema |-> current, error |-> "schema_.has_value()"]
    ELSE IF registerSchemaMismatch(anns, schema)
         THEN [schema |-> current, error |-> "schema mismatch"]
         ELSE [schema |-> schema, error |-> ""]

\* OperatorEntry::deregisterSchema: schema_ after the call and the error thrown
deregisterSchema(current) ==
    IF current = nullopt
    THEN [schema |-> current, error |-> "!schema_.has_value()"]
    ELSE [schema |-> nullopt, error |-> ""]

\* TRUE when the TORCH_CHECK on the C++ signature of registerKernel fails
signatureMismatch(recorded, cpp_signature) ==
    /\ cpp_signature # nullopt
    /\ recorded # nullopt
    /\ cpp_signature # recorded

\* a registerKernel that never records the signature
keepSignature(recorded, cpp_signature) == recorded

\* cpp_signature_ after the signature test of registerKernel has passed
recordSignature(recorded, cpp_signature) ==
    IF cpp_signature # nullopt /\ recorded = nullopt
    THEN cpp_signature
    ELSE recorded

\* TRUE when the schema test of registerKernel fails
inferredSchemaMismatch(schema, inferred_function_schema) ==
    /\ schema # nullopt
    /\ inferred_function_schema # nullptr
    /\ checkSchema(schema, inferred_function_schema)

(***************************************************************************)
(* KernelFunction by its members.  A function pointer is the wrapper it    *)
(* goes through, "" for none, and the function it ends up calling.         *)
(***************************************************************************)
Pointer(wrapper, target) == [wrapper |-> wrapper, target |-> target]

\* a functor_ that holds no functor, and a null function pointer
NoFunctor == "nullptr"

NoFunction == Pointer("", "nullptr")

Members == {"functor_", "boxed_kernel_func_", "unboxed_kernel_func_"}

\* the private constructor from the three members
KernelFunction(functor, boxed_kernel_func, unboxed_kernel_func) ==
    [functor_ |-> functor,
     boxed_kernel_func_ |-> boxed_kernel_func,
     unboxed_kernel_func_ |-> unboxed_kernel_func]

\* KernelFunction()
DefaultKernelFunction == KernelFunction(NoFunctor, NoFunction, NoFunction)

makeFromBoxedFunction(func) ==
    KernelFunction(NoFunctor, Pointer("make_boxed_function", func), NoFunction)

makeFromUnboxedFunctor(kernelFunctor) ==
    KernelFunction(kernelFunctor, NoFunction,
                   Pointer("wrap_kernel_functor_unboxed", kernelFunctor))

makeFallthrough ==
    KernelFunction(NoFunctor, Pointer("", "fallthrough_kernel"), NoFunction)

makeAmbiguousAutogradOther ==
    KernelFunction(NoFunctor, Pointer("", "ambiguous_autogradother_kernel"), NoFunction)

makeNamedNotSupported ==
    KernelFunction(NoFunctor, Pointer("", "named_not_supported_kernel"), NoFunction)

\* a boxed wrapper that lost the functor it wraps
make_boxed_from_no_functor(functor) ==
    Pointer("make_boxed_from_unboxed_functor", NoFunctor)

\* the boxed wrapper of an unboxed functor, synthesized from the functor alone
make_boxed_from_unboxed_functor(functor) ==
    Pointer("make_boxed_from_unboxed_functor", functor)

\* a call that always goes through the boxed invoke form
boxedFormOfCall(h, unboxed_kernel_func) == h.boxed_kernel_func_

\* the function that call invokes: the unboxed function it has read when
\* there is one, the boxed function of the handle otherwise
invokeFormOfCall(h, unboxed_kernel_func) ==
    IF unboxed_kernel_func # NoFunction
    THEN unboxed_kernel_func
    ELSE h.boxed_kernel_func_

\* a handle that counts as valid only with a boxed invoke form
KernelFunction_hasBoxed(h) == h.boxed_kernel_func_ # NoFunction

KernelFunction_isValidUnboxed(h) == h.unboxed_kernel_func_ # NoFunction

KernelFunction_isValid(h) ==
    h.boxed_kernel_func_ # NoFunction \/ h.unboxed_kernel_func_ # NoFunction

KernelFunction_isFallthrough(h) ==
    h.boxed_kernel_func_ = Pointer("", "fallthrough_kernel")

(***************************************************************************)
(* The state machine: one operator entry and the dispatcher's fallbacks,   *)
(* one kernel handle invoked by threads, and one dispatch-table slot read  *)
(* by a thread while a registration assigns to it.                         *)
(***************************************************************************)
VARIABLES
    kernels,                \* OperatorEntry::kernels_: the kernel of each list entry
    annotated,              \* kernels_: the inferred schema of each list entry,
                            \* and the C++ signature it was registered with
    dispatchTable,          \* OperatorEntry::dispatchTable_
    schema_,                \* OperatorEntry::schema_
    cpp_signature_,         \* OperatorEntry::cpp_signature_
    backendFallbackKernels, \* Dispatcher::backendFallbackKernels_
    last,                   \* the last call: its arguments and the entry before it
    handle,                 \* a KernelFunction that threads invoke
    made,                   \* the factory that made handle, and its argument
    calls,                  \* callBoxed and call on handle, by thread
    slot,                   \* the members of one dispatchTable_ entry
    assignment,             \* the assignment to the entry that is under way
    lookup,                 \* the read of the entry that is under way
    published,              \* the handles assigned to the entry so far
    conversion,             \* the last conversion of a DispatchKey
    report,                 \* what the last reportError call threw
    update,                 \* a registerKernel or deregisterKernel_ call that
                            \* is under way, and a thread that reads one entry
    operatorHasFallthroughForKey
                            \* dispatchKeyExtractor_: for each key with a
                            \* slot, the flag setOperatorHasFallthroughForKey
                            \* has set
    ,
    maybeOwned,             \* MaybeOwned<std::shared_ptr<T>> objects and the
                            \* last assignment between two of them
    storage                 \* one StorageImpl

entryVars == <<kernels, annotated, dispatchTable, schema_, cpp_signature_,
               backendFallbackKernels, last>>

handleVars == <<handle, made, calls>>

slotVars == <<slot, assignment, lookup, published>>

vars == <<entryVars, handleVars, slotVars, conversion, report, update,
          operatorHasFallthroughForKey, maybeOwned, storage>>

\* the MaybeOwned objects, and the original objects they borrow from
NumMaybeOwned == 2

NumOriginals == 2

\* a MaybeOwned: storage for an object no constructor has run on
NotConstructed ==
    [constructed |-> FALSE, isBorrowed_ |-> TRUE, borrow_ |-> -1, own_ |-> -1]

\* the allocators, and the sizes and data pointers, of a StorageImpl
NumAllocators == 2

MaxSizeBytes == 3

\* at most this many kernels are registered at a time
MaxRegistrations == 2

\* the dispatch_key arguments of registerKernel and deregisterKernel_
RegistrationKeys ==
    {nullopt, Dense, FPGA, AutogradOther, CPU, XLA,
     Autograd, CompositeImplicitAutograd, CompositeExplicitAutograd,
     CompositeExplicitAutogradNonFunctional}

\* the keys a backend fallback is registered for
FallbackKeys == {CPU, AutogradCPU}

\* the dispatch_key arguments of the calls that carry schemas and signatures
SchemaRegistrationKeys == {CPU, AutogradCPU}

\* the declared schemas, and the inferred schemas of kernels
Schemas == {1, 2}

\* the C++ signatures of kernels
CppSignatures == {1, 2}

NoKernels == [k \in {} |-> <<>>]

NoFallbacks == [s \in Slots |-> missingKernel]

NoEntry ==
    [kernels |-> NoKernels, dispatchTable |-> NoFallbacks,
     annotated |-> NoKernels, schema |-> nullopt, cpp_signature |-> nullopt]

NumRegistered(ks) ==
    LET RECURSIVE Sum(_)
        Sum(S) == IF S = {} THEN 0
                  ELSE LET k == CHOOSE x \in S : TRUE
                       IN  Len(ks[k]) + Sum(S \ {k})
    IN  Sum(DOMAIN ks)

\* the kernels registered at present for key k
Registered(ks, k) ==
    IF k \in DOMAIN ks THEN {ks[k][i] : i \in 1 .. Len(ks[k])} ELSE {}

\* the kernel a registerKernel call for dispatch_key brings: kernels are
\* interchangeable, so it is the one of least number that is not registered
\* for the key at present
NewKernelUpTo(max, ks, dispatch_key) ==
    LET k == IF dispatch_key # nullopt THEN dispatch_key
             ELSE CompositeImplicitAutograd
    IN  Kernel(k, CHOOSE i \in 1 .. max :
                     /\ Kernel(k, i) \notin Registered(ks, k)
                     /\ \A j \in 1 .. (i - 1) : Kernel(k, j) \in Registered(ks, k))

NewKernel(ks, dispatch_key) == NewKernelUpTo(MaxRegistrations, ks, dispatch_key)

\* the entry as a call finds it
Entry ==
    [kernels |-> kernels, dispatchTable |-> dispatchTable,
     annotated |-> annotated, schema |-> schema_,
     cpp_signature |-> cpp_signature_]

\* the arguments of a call that has no schema or signature argument
NoArguments ==
    [cpp_signature |-> nullopt, inferred_function_schema |-> nullptr,
     schema |-> nullopt]

\* OperatorEntry::OperatorEntry, with the fallbacks registered before it
InitEntry ==
    /\ \E F \in SUBSET FallbackKeys :
          backendFallbackKernels =
              [s \in Slots |-> IF s \in F THEN FallbackKernel(s) ELSE missingKernel]
    /\ kernels = NoKernels
    /\ annotated = NoKernels
    /\ schema_ = nullopt
    /\ cpp_signature_ = nullopt
    /\ dispatchTable =
          updateDispatchTableFull_(NoFallbacks, NoKernels, backendFallbackKernels)
    /\ last = [op |-> "OperatorEntry", dispatch_key |-> nullopt, pos |-> 0,
               before |-> NoEntry, registration |-> NoEntry,
               arguments |-> NoArguments, error |-> ""]

\* the threads that invoke the handle
NumThreads == 2

Threads == 1 .. NumThreads

\* the functions and functors that kernels are made from
Functions == {"f", "g"}

NoCall == [pc |-> "idle", via |-> "", func |-> NoFunction, result |-> ""]

\* a default-constructed handle that no thread invokes
InitHandle ==
    /\ handle = DefaultKernelFunction
    /\ made = [by |-> "KernelFunction", func |-> NoFunctor]
    /\ calls = [t \in Threads |-> NoCall]

\* a default-constructed table entry: dispatchTable_() in the constructor
InitSlot ==
    /\ slot = DefaultKernelFunction
    /\ assignment = [pc |-> "idle", kernel |-> DefaultKernelFunction, written |-> {}]
    /\ lookup = [pc |-> "idle", seen |-> DefaultKernelFunction, read |-> {}]
    /\ published = {DefaultKernelFunction}

Init ==
    /\ InitEntry
    /\ InitHandle
    /\ InitSlot
    /\ conversion =
          [op |-> "none", k |-> Undefined, b |-> InvalidBit,
           functionality_k |-> Undefined, backend_k |-> InvalidBit,
           runtime_k |-> Undefined, alias |-> FALSE]
    /\ report = [error |-> "", listed |-> <<>>]
    /\ operatorHasFallthroughForKey =
          setOperatorHasFallthroughForKey([s \in Slots |-> FALSE], dispatchTable,
                                          {Undefined} \cup FullEntriesUpdated)
    /\ maybeOwned =
          [obj |-> [i \in 1 .. NumMaybeOwned |-> NotConstructed],
           op |-> "none", lhs |-> 0, rhs |-> 0, rhsBefore |-> NotConstructed]
    /\ storage =
          [constructed |-> FALSE, data_ptr_ |-> 0, size_bytes_ |-> 0,
           resizable_ |-> FALSE, allocator_ |-> 0, error |-> ""]
    /\ update =
          [pc |-> "idle", key |-> Undefined, before |-> NoFallbacks, keys |-> {},
           writes |-> 0, others |-> FALSE, stored |-> {},
           members |-> [m \in Members |-> missingKernel],
           seen |-> [m \in Members |-> missingKernel], read |-> {}]

\* OperatorEntry::registerSchema
RegisterSchema(schema) ==
    LET r == registerSchema(schema_, annotated, schema)
        error == r.error
    IN  /\ schema_' = r.schema
        /\ last' = [op |-> "registerSchema", dispatch_key |-> nullopt, pos |-> 0,
                    before |-> Entry, registration |-> NoEntry,
                    arguments |-> [NoArguments EXCEPT !.schema = schema],
                    error |-> error]
        /\ UNCHANGED <<kernels, annotated, dispatchTable, cpp_signature_,
                       backendFallbackKernels, handleVars, slotVars,
                       conversion, report, update,
                       operatorHasFallthroughForKey, maybeOwned, storage>>

\* OperatorEntry::deregisterSchema
DeregisterSchema ==
    LET r == deregisterSchema(schema_)
        error == r.error
    IN  /\ schema_' = r.schema
        /\ last' = [op |-> "deregisterSchema", dispatch_key |-> nullopt, pos |-> 0,
                    before |-> Entry, registration |-> NoEntry,
                    arguments |-> NoArguments, error |-> error]
        /\ UNCHANGED <<kernels, annotated, dispatchTable, cpp_signature_,
                       backendFallbackKernels, handleVars, slotVars,
                       conversion, report, update,
                       operatorHasFallthroughForKey, maybeOwned, storage>>

\* OperatorEntry::registerKernel: the signature test, the recording of the
\* signature, the schema test, then the insertion and the table update
RegisterKernelUpTo(max, dispatch_key, kernel, cpp_signature, inferred_function_schema) ==
    LET error ==
            IF signatureMismatch(cpp_signature_, cpp_signature)
            THEN "signature mismatch"
            ELSE IF inferredSchemaMismatch(schema_, inferred_function_schema)
                 THEN "schema mismatch"
                 ELSE ""
        r == registerKernelOrThrow(error, kernels, dispatchTable,
                                   backendFallbackKernels, dispatch_key, kernel)
        k == IF dispatch_key # nullopt THEN dispatch_key
             ELSE CompositeImplicitAutograd
    IN  /\ NumRegistered(kernels) < max
        /\ cpp_signature_' =
              IF error = "signature mismatch" THEN cpp_signature_
              ELSE recordSignature(cpp_signature_, cpp_signature)
        /\ kernels' = r.kernels
        /\ dispatchTable' = r.dispatchTable
        /\ annotated' =
              IF r.kernels # kernels
              THEN emplace_front(annotated, k,
                       [inferred_function_schema |-> inferred_function_schema,
                        cpp_signature |-> cpp_signature])
              ELSE annotated
        /\ last' = [op |-> "registerKernel", dispatch_key |-> dispatch_key, pos |-> 1,
                    before |-> Entry, registration |-> NoEntry,
                    arguments |->
                        [cpp_signature |-> cpp_signature,
                         inferred_function_schema |-> inferred_function_schema,
                         schema |-> nullopt],
                    error |-> error]
        /\ operatorHasFallthroughForKey' =
              IF error # "" THEN operatorHasFallthroughForKey
              ELSE setOperatorHasFallthroughForKey(
                       operatorHasFallthroughForKey, r.dispatchTable,
                       IF dispatch_key # nullopt THEN EntriesUpdated(dispatch_key)
                       ELSE {Undefined} \cup FullEntriesUpdated)
        /\ UNCHANGED <<schema_, backendFallbackKernels, handleVars, slotVars,
                       conversion, report, update, maybeOwned, storage>>

\* registerKernel on an entry that holds fewer than MaxRegistrations kernels
RegisterKernel(dispatch_key, kernel, cpp_signature, inferred_function_schema) ==
    RegisterKernelUpTo(MaxRegistrations, dispatch_key, kernel, cpp_signature,
                       inferred_function_schema)

\* deregisterKernel_ with the key and the list position a registerKernel call
\* returned.  last.registration is the entry before that registerKernel call
\* when it is the call that came just before this one.
DeregisterKernel(dispatch_key, pos) ==
    LET dk == IF dispatch_key # nullopt THEN dispatch_key
              ELSE CompositeImplicitAutograd
    IN  /\ dk \in DOMAIN kernels
        /\ pos \in 1 .. Len(kernels[dk])
        /\ LET r == deregisterKernel_(kernels, dispatchTable,
                                      backendFallbackKernels, dispatch_key, pos)
           IN  /\ kernels' = r.kernels
               /\ dispatchTable' = r.dispatchTable
        /\ annotated' = erase(annotated, dk, pos)
        /\ last' = [op |-> "deregisterKernel", dispatch_key |-> dispatch_key,
                    pos |-> pos, before |-> Entry,
                    registration |->
                        IF /\ last.op = "registerKernel"
                           /\ last.error = ""
                           /\ last.dispatch_key = dispatch_key
                           /\ pos = 1
                        THEN last.before ELSE NoEntry,
                    arguments |-> NoArguments, error |-> ""]
        /\ operatorHasFallthroughForKey' =
              setOperatorHasFallthroughForKey(operatorHasFallthroughForKey,
                                              dispatchTable', EntriesUpdated(dk))
        /\ UNCHANGED <<schema_, cpp_signature_, backendFallbackKernels,
                       handleVars, slotVars, conversion, report, update,
                       maybeOwned, storage>>

\* Dispatcher::registerFallback: sets the fallback and calls updateFallback
RegisterFallback(dispatch_key) ==
    /\ ~isValid(backendFallbackKernels[dispatch_key])
    /\ backendFallbackKernels' =
          [backendFallbackKernels EXCEPT ![dispatch_key] = FallbackKernel(dispatch_key)]
    /\ dispatchTable' =
          updateFallback(dispatchTable, kernels, backendFallbackKernels', dispatch_key)
    /\ last' = [op |-> "registerFallback", dispatch_key |-> dispatch_key, pos |-> 0,
                before |-> Entry, registration |-> NoEntry,
                arguments |-> NoArguments, error |-> ""]
    /\ operatorHasFallthroughForKey' =
          setOperatorHasFallthroughForKey(operatorHasFallthroughForKey,
                                          dispatchTable',
                                          EntriesUpdated(dispatch_key))
    /\ UNCHANGED <<kernels, annotated, schema_, cpp_signature_, handleVars,
                   slotVars, conversion, report, update, maybeOwned, storage>>

\* Dispatcher::deregisterFallback_: clears the fallback and calls updateFallback
DeregisterFallback(dispatch_key) ==
    /\ isValid(backendFallbackKernels[dispatch_key])
    /\ backendFallbackKernels' =
          [backendFallbackKernels EXCEPT ![dispatch_key] = missingKernel]
    /\ dispatchTable' =
          updateFallback(dispatchTable, kernels, backendFallbackKernels', dispatch_key)
    /\ last' = [op |-> "deregisterFallback", dispatch_key |-> dispatch_key, pos |-> 0,
                before |-> Entry, registration |-> NoEntry,
                arguments |-> NoArguments, error |-> ""]
    /\ operatorHasFallthroughForKey' =
          setOperatorHasFallthroughForKey(operatorHasFallthroughForKey,
                                          dispatchTable',
                                          EntriesUpdated(dispatch_key))
    /\ UNCHANGED <<kernels, annotated, schema_, cpp_signature_, handleVars,
                   slotVars, conversion, report, update, maybeOwned, storage>>

\* the calls on an entry whose kernels carry neither an inferred schema nor
\* a C++ signature, over all registration keys and with backend fallbacks
Next ==
    \/ \E dispatch_key \in RegistrationKeys :
          RegisterKernel(dispatch_key, NewKernel(kernels, dispatch_key),
                         nullopt, nullptr)
    \/ \E dispatch_key \in RegistrationKeys, pos \in 1 .. MaxRegistrations :
          DeregisterKernel(dispatch_key, pos)
    \/ \E dispatch_key \in FallbackKeys : RegisterFallback(dispatch_key)
    \/ \E dispatch_key \in FallbackKeys : DeregisterFallback(dispatch_key)

Spec == Init /\ [][Next]_vars

\* the calls on an entry with a declared schema and kernels that carry
\* inferred schemas and C++ signatures
NextSchema ==
    \/ \E schema \in Schemas : RegisterSchema(schema)
    \/ DeregisterSchema
    \/ \E dispatch_key \in SchemaRegistrationKeys,
          cpp_signature \in CppSignatures \cup {nullopt},
          inferred_function_schema \in Schemas \cup {nullptr} :
          RegisterKernel(dispatch_key, NewKernel(kernels, dispatch_key),
                         cpp_signature, inferred_function_schema)
    \/ \E dispatch_key \in SchemaRegistrationKeys, pos \in 1 .. MaxRegistrations :
          DeregisterKernel(dispatch_key, pos)

\* an entry constructed with no backend fallback registered
InitNoFallbacks ==
    /\ Init
    /\ backendFallbackKernels = NoFallbacks

SpecSchema == InitNoFallbacks /\ [][NextSchema]_vars

(***************************************************************************)
(* Invocations of one kernel handle by several threads.  callBoxed and     *)
(* call are const and no member is mutable: they read the members and      *)
(* write none.                                                             *)
(***************************************************************************)
\* the factories, with the function or functor they are given
Factories ==
    {[by |-> b, func |-> NoFunctor] :
        b \in {"KernelFunction", "makeFallthrough",
               "makeAmbiguousAutogradOther", "makeNamedNotSupported"}}
    \cup {[by |-> b, func |-> f] :
            b \in {"makeFromBoxedFunction", "makeFromUnboxedFunctor"},
            f \in Functions}

\* the handle a factory makes
Make(m) ==
    CASE m.by = "makeFromBoxedFunction" -> makeFromBoxedFunction(m.func)
      [] m.by = "makeFromUnboxedFunctor" -> makeFromUnboxedFunctor(m.func)
      [] m.by = "makeFallthrough" -> makeFallthrough
      [] m.by = "makeAmbiguousAutogradOther" -> makeAmbiguousAutogradOther
      [] m.by = "makeNamedNotSupported" -> makeNamedNotSupported
      [] OTHER -> DefaultKernelFunction

\* a new handle takes the place of the one invoked so far, once no thread
\* is inside an invocation of it
MakeHandle(m) ==
    /\ \A t \in Threads : calls[t].pc = "idle"
    /\ made' = m
    /\ handle' = Make(m)
    /\ UNCHANGED <<calls, entryVars, conversion, report, slotVars, update,
                   operatorHasFallthroughForKey, maybeOwned, storage>>

\* callBoxed begins: the thread reads boxed_kernel_func_
CallBoxed(t) ==
    /\ calls[t].pc = "idle"
    /\ calls' = [calls EXCEPT ![t] =
                    [pc |-> "callBoxed", via |-> "callBoxed",
                     func |-> handle.boxed_kernel_func_, result |-> ""]]
    /\ UNCHANGED <<handle, made, entryVars, conversion, report, slotVars,
                   update, operatorHasFallthroughForKey, maybeOwned, storage>>

\* callBoxed on a handle without a boxed invoke form: the thread synthesizes
\* the boxed wrapper from the functor, or fails when there is no functor
SynthesizeBoxed(t) ==
    /\ calls[t].pc = "callBoxed"
    /\ calls[t].func = NoFunction
    /\ calls' = [calls EXCEPT ![t] =
                    IF handle.functor_ = NoFunctor
                    THEN [pc |-> "done", via |-> "callBoxed",
                          func |-> NoFunction, result |-> "error"]
                    ELSE [pc |-> "callBoxed", via |-> "callBoxed",
                          func |-> make_boxed_from_unboxed_functor(handle.functor_),
                          result |-> ""]]
    /\ UNCHANGED <<handle, made, entryVars, conversion, report, slotVars,
                   update, operatorHasFallthroughForKey, maybeOwned, storage>>

\* callBoxed calls the boxed function it has
InvokeBoxed(t) ==
    /\ calls[t].pc = "callBoxed"
    /\ calls[t].func # NoFunction
    /\ calls' = [calls EXCEPT ![t] =
                    [pc |-> "done", via |-> "callBoxed", func |-> calls[t].func,
                     result |-> calls[t].func.target]]
    /\ UNCHANGED <<handle, made, entryVars, conversion, report, slotVars,
                   update, operatorHasFallthroughForKey, maybeOwned, storage>>

\* call begins: the thread reads unboxed_kernel_func_
Call(t) ==
    /\ calls[t].pc = "idle"
    /\ calls' = [calls EXCEPT ![t] =
                    [pc |-> "call", via |-> "call",
                     func |-> handle.unboxed_kernel_func_, result |-> ""]]
    /\ UNCHANGED <<handle, made, entryVars, conversion, report, slotVars,
                   update, operatorHasFallthroughForKey, maybeOwned, storage>>

\* call calls the unboxed function directly, or boxes the arguments and calls
\* the boxed function, or fails when the handle has neither
InvokeUnboxed(t) ==
    /\ calls[t].pc = "call"
    /\ calls' = [calls EXCEPT ![t] =
                    LET func == invokeFormOfCall(handle, calls[t].func)
                    IN  [pc |-> "done", via |-> "call", func |-> func,
                         result |-> IF func # NoFunction THEN func.target
                                    ELSE "error"]]
    /\ UNCHANGED <<handle, made, entryVars, conversion, report, slotVars,
                   update, operatorHasFallthroughForKey, maybeOwned, storage>>

\* the invocation returns
Return(t) ==
    /\ calls[t].pc = "done"
    /\ calls' = [calls EXCEPT ![t] = NoCall]
    /\ UNCHANGED <<handle, made, entryVars, conversion, report, slotVars,
                   update, operatorHasFallthroughForKey, maybeOwned, storage>>

NextInvoke ==
    \/ \E m \in Factories : MakeHandle(m)
    \/ \E t \in Threads : CallBoxed(t)
    \/ \E t \in Threads : SynthesizeBoxed(t)
    \/ \E t \in Threads : InvokeBoxed(t)
    \/ \E t \in Threads : Call(t)
    \/ \E t \in Threads : InvokeUnboxed(t)
    \/ \E t \in Threads : Return(t)

SpecInvoke == InitNoFallbacks /\ [][NextInvoke]_vars

(***************************************************************************)
(* One dispatch-table entry, assigned to by registrations, which the       *)
(* dispatcher serializes, and read by an invoking thread without a lock.   *)
(* The entry is three members; the assignment and the read are not         *)
(* synchronized, so the members are stored and loaded one by one, in any   *)
(* order.                                                                  *)
(***************************************************************************)
\* the handles that registrations assign to the entry
SlotKernels ==
    {DefaultKernelFunction, makeAmbiguousAutogradOther}
    \cup {makeFromUnboxedFunctor(f) : f \in Functions}

\* updateDispatchTableEntry_: the assignment to dispatchTable_[dispatch_ix]
\* begins
AssignBegin(kernel) ==
    /\ assignment.pc = "idle"
    /\ assignment' = [pc |-> "assigning", kernel |-> kernel, written |-> {}]
    /\ published' = published \cup {kernel}
    /\ UNCHANGED <<slot, lookup, entryVars, conversion, report, handleVars,
                   update, operatorHasFallthroughForKey, maybeOwned, storage>>

\* the assignment stores one member
AssignMember(m) ==
    /\ assignment.pc = "assigning"
    /\ m \notin assignment.written
    /\ slot' = [slot EXCEPT ![m] = assignment.kernel[m]]
    /\ assignment' =
          IF assignment.written \cup {m} = Members
          THEN [pc |-> "idle", kernel |-> DefaultKernelFunction, written |-> {}]
          ELSE [assignment EXCEPT !.written = @ \cup {m}]
    /\ UNCHANGED <<lookup, published, entryVars, conversion, report,
                   handleVars, update, operatorHasFallthroughForKey,
                   maybeOwned, storage>>

\* an invoking thread begins to read the entry
LookupBegin ==
    /\ lookup.pc # "reading"
    /\ lookup' = [pc |-> "reading", seen |-> DefaultKernelFunction, read |-> {}]
    /\ UNCHANGED <<slot, assignment, published, entryVars, conversion, report,
                   handleVars, update, operatorHasFallthroughForKey,
                   maybeOwned, storage>>

\* the thread loads one member
LookupMember(m) ==
    /\ lookup.pc = "reading"
    /\ m \notin lookup.read
    /\ lookup' = [pc |-> IF lookup.read \cup {m} = Members
                         THEN "done" ELSE "reading",
                  seen |-> [lookup.seen EXCEPT ![m] = slot[m]],
                  read |-> lookup.read \cup {m}]
    /\ UNCHANGED <<slot, assignment, published, entryVars, conversion, report,
                   handleVars, update, operatorHasFallthroughForKey,
                   maybeOwned, storage>>

NextLookup ==
    \/ \E kernel \in SlotKernels : AssignBegin(kernel)
    \/ \E m \in Members : AssignMember(m)
    \/ LookupBegin
    \/ \E m \in Members : LookupMember(m)

SpecLookup == InitNoFallbacks /\ [][NextLookup]_vars

(***************************************************************************)
(* The conversions of DispatchKey.h, applied to every value of the enum    *)
(* and to every pair of a functionality key and a backend component.       *)
(***************************************************************************)
\* toFunctionalityKey(k) and toBackendComponent(k), and the key that
\* toRuntimePerBackendFunctionalityKey makes of the two
Decompose(k) ==
    /\ conversion' =
           [op |-> "decompose", k |-> k, b |-> InvalidBit,
            functionality_k |-> toFunctionalityKey(k),
            backend_k |-> toBackendComponent(k),
            runtime_k |-> toRuntimePerBackendFunctionalityKey(
                              toFunctionalityKey(k), toBackendComponent(k)),
            alias |-> isAliasDispatchKey(k)]
    /\ UNCHANGED <<entryVars, handleVars, slotVars, report, update,
                   operatorHasFallthroughForKey, maybeOwned, storage>>

\* toRuntimePerBackendFunctionalityKey(functionality_k, backend_k), and
\* the two parts of the key it returns
Recompose(functionality_k, backend_k) ==
    LET runtime_k ==
            toRuntimePerBackendFunctionalityKey(functionality_k, backend_k)
    IN  /\ conversion' =
               [op |-> "recompose", k |-> functionality_k, b |-> backend_k,
                functionality_k |-> toFunctionalityKey(runtime_k),
                backend_k |-> toBackendComponent(runtime_k),
                runtime_k |-> runtime_k,
                alias |-> isAliasDispatchKey(runtime_k)]
        /\ UNCHANGED <<entryVars, handleVars, slotVars, report, update,
                       operatorHasFallthroughForKey, maybeOwned, storage>>

NextKeys ==
    \/ \E k \in Undefined .. EndOfAliasKeys : Decompose(k)
    \/ \E functionality_k \in Undefined .. EndOfFunctionalityKeys,
          backend_k \in InvalidBit .. EndOfBackendKeys :
          Recompose(functionality_k, backend_k)

SpecKeys == InitNoFallbacks /\ [][NextKeys]_vars

NextUndefined ==
    \/ \E dispatch_key \in
          {nullopt, CPU, Autograd, CompositeImplicitAutograd,
           CompositeExplicitAutograd,
           CompositeExplicitAutogradNonFunctional} :
          RegisterKernel(dispatch_key, NewKernel(kernels, dispatch_key),
                         nullopt, nullptr)
    \/ \E dispatch_key \in
          {nullopt, CPU, Autograd, CompositeImplicitAutograd,
           CompositeExplicitAutograd,
           CompositeExplicitAutogradNonFunctional},
          pos \in 1 .. MaxRegistrations :
          DeregisterKernel(dispatch_key, pos)
    \/ \E dispatch_key \in ({Undefined, CPU}) : RegisterFallback(dispatch_key)
    \/ \E dispatch_key \in ({Undefined, CPU}) : DeregisterFallback(dispatch_key)

SpecUndefined == InitNoFallbacks /\ [][NextUndefined]_vars

(***************************************************************************)
(* Registrations with any dispatch key argument, DispatchKey::Undefined    *)
(* among them: registerKernel has no test of the key it is given.  While   *)
(* kernels_ holds Undefined only the calls that do not reach the assertion *)
(* of hasKernelForAnyDispatchKey are followed: registerKernel and          *)
(* deregisterKernel_ at Undefined, and the query hasKernelForDispatchKey.  *)
(***************************************************************************)
\* TORCH_INTERNAL_ASSERT(kernels_.find(DispatchKey::Undefined) == kernels_.end())
assertNoUndefinedKernel(ks) == Undefined \notin DOMAIN ks

\* hasKernelForDispatchKey(k), which throws when its assertion fails
HasKernelForDispatchKey(k) ==
    /\ last' = [op |-> "hasKernelForDispatchKey", dispatch_key |-> k, pos |-> 1,
                before |-> Entry, registration |-> NoEntry,
                arguments |-> NoArguments,
                error |-> IF assertNoUndefinedKernel(kernels)
                          THEN "" ELSE "assertion"]
    /\ UNCHANGED <<kernels, annotated, dispatchTable, schema_, cpp_signature_,
                   backendFallbackKernels, handleVars, slotVars, conversion,
                   report, update, operatorHasFallthroughForKey, maybeOwned,
                   storage>>

NextAnyKey ==
    \/ \E dispatch_key \in ({Undefined} \cup RegistrationKeys) :
          /\ dispatch_key = Undefined \/ assertNoUndefinedKernel(kernels)
          /\ RegisterKernel(dispatch_key, NewKernel(kernels, dispatch_key),
                            nullopt, nullptr)
    \/ \E dispatch_key \in {Undefined} \cup RegistrationKeys,
          pos \in 1 .. MaxRegistrations :
          /\ dispatch_key = Undefined \/ assertNoUndefinedKernel(kernels)
          /\ DeregisterKernel(dispatch_key, pos)
    \/ \E k \in {Undefined, CPU, CompositeImplicitAutograd} :
          HasKernelForDispatchKey(k)

SpecAnyKey == InitNoFallbacks /\ [][NextAnyKey]_vars

\* a check of the entries of the backend keys alone
checkInvariantsOfBackends ==
    \A k \in KeysOf(backend_dispatch_keyset) :
        \/ getDispatchTableIndexForDispatchKey(k) = -1
        \/ dispatchTable[getDispatchTableIndexForDispatchKey(k)] =
               computeDispatchTableEntry(kernels, backendFallbackKernels, k)

\* the loop of checkInvariants over DispatchKeySet(FULL)
checkInvariants ==
    \A k \in RuntimeKeys :
        \/ getDispatchTableIndexForDispatchKey(k) = -1
        \/ dispatchTable[getDispatchTableIndexForDispatchKey(k)] =
               computeDispatchTableEntry(kernels, backendFallbackKernels, k)

(***************************************************************************)
(* Registrations that shadow one another while a kernel of another key is  *)
(* registered: up to MaxShadowRegistrations kernels at the absent key, a   *)
(* backend key and two composite alias keys.                               *)
(***************************************************************************)
MaxShadowRegistrations == 3

NextShadow ==
    \/ \E dispatch_key \in {nullopt, CPU, CompositeImplicitAutograd,
                             CompositeExplicitAutograd} :
          RegisterKernelUpTo(MaxShadowRegistrations, dispatch_key,
                             NewKernelUpTo(MaxShadowRegistrations, kernels,
                                           dispatch_key),
                             nullopt, nullptr)
    \/ \E dispatch_key \in {nullopt, CPU, CompositeImplicitAutograd,
                             CompositeExplicitAutograd},
          pos \in 1 .. MaxShadowRegistrations :
          DeregisterKernel(dispatch_key, pos)

SpecShadow == InitNoFallbacks /\ [][NextShadow]_vars

(***************************************************************************)
(* One registerKernel or deregisterKernel_ call step by step, with a       *)
(* thread that reads the entry of one key, update.key, without a lock.     *)
(* The call changes kernels_ first and then assigns to the entries.  The   *)
(* assignments to the other entries, which the thread does not read, are   *)
(* one step; an assignment to the entry read stores its three members one  *)
(* by one, and the thread loads them one by one (see SpecLookup).  A       *)
(* member is named by the kernel it belongs to.                            *)
(***************************************************************************)
\* the number of times the table update of a call with dispatch_key, absent
\* for the full recomputation, calls updateDispatchTableEntry_ for key K
timesWritten(dispatch_key, K) ==
    IF dispatch_key # nullopt
    THEN IF K \in EntriesUpdated(dispatch_key) THEN 1 ELSE 0
    ELSE (IF K = Undefined THEN 1 ELSE 0)
         + Cardinality({k \in KeysOf(FULL) : K \in EntriesUpdated(k)})

\* registerKernel up to the insertion into kernels_
BeginRegisterKernel(dispatch_key, K) ==
    LET k == IF dispatch_key # nullopt THEN dispatch_key
             ELSE CompositeImplicitAutograd
    IN  /\ update.pc = "idle"
        /\ NumRegistered(kernels) < MaxRegistrations
        /\ kernels' = emplace_front(kernels, k, NewKernel(kernels, dispatch_key))
        /\ annotated' =
              emplace_front(annotated, k,
                  [inferred_function_schema |-> nullptr, cpp_signature |-> nullopt])
        /\ last' = [op |-> "registerKernel", dispatch_key |-> dispatch_key,
                    pos |-> 1, before |-> Entry, registration |-> NoEntry,
                    arguments |-> NoArguments, error |-> ""]
        /\ update' =
              [pc |-> "updating", key |-> K, before |-> dispatchTable,
               keys |-> IF dispatch_key # nullopt
                        THEN EntriesUpdated(dispatch_key)
                        ELSE {Undefined} \cup FullEntriesUpdated,
               writes |-> timesWritten(dispatch_key, K), others |-> TRUE,
               stored |-> {},
               members |-> [m \in Members |-> dispatchTable[K]],
               seen |-> [m \in Members |-> missingKernel], read |-> {}]
        /\ UNCHANGED <<dispatchTable, schema_, cpp_signature_,
                       backendFallbackKernels, handleVars, slotVars,
                       conversion, report, operatorHasFallthroughForKey,
                       maybeOwned, storage>>

\* deregisterKernel_ up to the erasure from kernels_
BeginDeregisterKernel(dispatch_key, pos, K) ==
    LET dk == IF dispatch_key # nullopt THEN dispatch_key
              ELSE CompositeImplicitAutograd
    IN  /\ update.pc = "idle"
        /\ dk \in DOMAIN kernels
        /\ pos \in 1 .. Len(kernels[dk])
        /\ kernels' = erase(kernels, dk, pos)
        /\ annotated' = erase(annotated, dk, pos)
        /\ last' = [op |-> "deregisterKernel", dispatch_key |-> dispatch_key,
                    pos |-> pos, before |-> Entry, registration |-> NoEntry,
                    arguments |-> NoArguments, error |-> ""]
        /\ update' =
              [pc |-> "updating", key |-> K, before |-> dispatchTable,
               keys |-> EntriesUpdated(dk),
               writes |-> timesWritten(dk, K), others |-> TRUE,
               stored |-> {},
               members |-> [m \in Members |-> dispatchTable[K]],
               seen |-> [m \in Members |-> missingKernel], read |-> {}]
        /\ UNCHANGED <<dispatchTable, schema_, cpp_signature_,
                       backendFallbackKernels, handleVars, slotVars,
                       conversion, report, operatorHasFallthroughForKey,
                       maybeOwned, storage>>

\* the calls of updateDispatchTableEntry_ for the keys other than update.key
UpdateOtherEntries ==
    /\ update.pc = "updating"
    /\ update.others
    /\ dispatchTable' =
          updateEachEntry(dispatchTable, kernels, backendFallbackKernels,
                          update.keys \ {update.key})
    /\ update' = [update EXCEPT !.others = FALSE,
                                !.pc = IF update.writes = 0 THEN "done" ELSE @]
    /\ operatorHasFallthroughForKey' =
          setOperatorHasFallthroughForKey(operatorHasFallthroughForKey,
                                          dispatchTable',
                                          update.keys \ {update.key})
    /\ UNCHANGED <<kernels, annotated, schema_, cpp_signature_,
                   backendFallbackKernels, last, handleVars, slotVars,
                   conversion, report, maybeOwned, storage>>

\* updateDispatchTableEntry_ for update.key: the assignment stores one member
StoreMember(m) ==
    LET kernel == computeDispatchTableEntry(kernels, backendFallbackKernels,
                                            update.key)
        whole == update.stored \cup {m} = Members
    IN  /\ update.pc = "updating"
        /\ update.writes > 0
        /\ m \notin update.stored
        /\ update' =
              [update EXCEPT
                  !.members = [@ EXCEPT ![m] = kernel],
                  !.stored = IF whole THEN {} ELSE @ \cup {m},
                  !.writes = IF whole THEN @ - 1 ELSE @,
                  !.pc = IF whole /\ update.writes = 1 /\ ~update.others
                         THEN "done" ELSE @]
        /\ dispatchTable' =
              IF whole
              THEN updateDispatchTableEntry_(dispatchTable, kernels,
                                             backendFallbackKernels, update.key)
              ELSE dispatchTable
        /\ operatorHasFallthroughForKey' =
              setOperatorHasFallthroughForKey(operatorHasFallthroughForKey,
                                              dispatchTable',
                                              IF whole THEN {update.key} ELSE {})
        /\ UNCHANGED <<kernels, annotated, schema_, cpp_signature_,
                       backendFallbackKernels, last, handleVars, slotVars,
                       conversion, report, maybeOwned, storage>>

\* the thread loads one member of the entry of update.key
LoadMember(m) ==
    /\ update.pc \in {"updating", "done"}
    /\ m \notin update.read
    /\ update' = [update EXCEPT !.seen = [@ EXCEPT ![m] = update.members[m]],
                                !.read = @ \cup {m}]
    /\ UNCHANGED <<entryVars, handleVars, slotVars, conversion, report,
                   operatorHasFallthroughForKey, maybeOwned, storage>>

NextUpdate ==
    \/ /\ update.pc = "idle"
       /\ \E dispatch_key \in {nullopt, CPU, CompositeExplicitAutograd} :
             RegisterKernel(dispatch_key, NewKernel(kernels, dispatch_key),
                            nullopt, nullptr)
    \/ \E dispatch_key \in {nullopt, CPU, CompositeExplicitAutograd},
          K \in {CPU, AutogradCPU} :
          BeginRegisterKernel(dispatch_key, K)
    \/ \E dispatch_key \in {nullopt, CPU, CompositeExplicitAutograd},
          pos \in 1 .. MaxRegistrations, K \in {CPU, AutogradCPU} :
          BeginDeregisterKernel(dispatch_key, pos, K)
    \/ UpdateOtherEntries
    \/ \E m \in Members : StoreMember(m)
    \/ \E m \in Members : LoadMember(m)

SpecUpdate == InitNoFallbacks /\ [][NextUpdate]_vars

(***************************************************************************)
(* Fallthrough kernels: a kernel made by KernelFunction::makeFallthrough   *)
(* is registered for the operator or as a backend fallback, and            *)
(* updateDispatchTableEntry_ tells the DispatchKeyExtractor of each slot   *)
(* it writes whether the slot holds such a kernel.                         *)
(***************************************************************************)
\* Dispatcher::registerFallback with a fallthrough kernel
RegisterFallthrough(dispatch_key) ==
    /\ ~isValid(backendFallbackKernels[dispatch_key])
    /\ backendFallbackKernels' =
          [backendFallbackKernels EXCEPT ![dispatch_key] = fallthroughKernel]
    /\ dispatchTable' =
          updateFallback(dispatchTable, kernels, backendFallbackKernels', dispatch_key)
    /\ operatorHasFallthroughForKey' =
          setOperatorHasFallthroughForKey(operatorHasFallthroughForKey,
                                          dispatchTable',
                                          EntriesUpdated(dispatch_key))
    /\ last' = [op |-> "registerFallback", dispatch_key |-> dispatch_key, pos |-> 0,
                before |-> Entry, registration |-> NoEntry,
                arguments |-> NoArguments, error |-> ""]
    /\ UNCHANGED <<kernels, annotated, schema_, cpp_signature_, handleVars,
                   slotVars, conversion, report, update, maybeOwned, storage>>

NextFallthrough ==
    \/ \E dispatch_key \in {nullopt, CPU, AutogradCPU} :
          \/ RegisterKernel(dispatch_key, NewKernel(kernels, dispatch_key),
                            nullopt, nullptr)
          \/ RegisterKernel(dispatch_key, fallthroughKernel, nullopt, nullptr)
    \/ \E dispatch_key \in {nullopt, CPU, AutogradCPU},
          pos \in 1 .. MaxRegistrations :
          DeregisterKernel(dispatch_key, pos)
    \/ \E dispatch_key \in FallbackKeys : RegisterFallthrough(dispatch_key)
    \/ \E dispatch_key \in FallbackKeys : RegisterFallback(dispatch_key)
    \/ \E dispatch_key \in FallbackKeys : DeregisterFallback(dispatch_key)

SpecFallthrough == InitNoFallbacks /\ [][NextFallthrough]_vars

(***************************************************************************)
(* c10::MaybeOwned<T> for T = std::shared_ptr, the type MaybeOwned.h       *)
(* enables.  A T is a number, 0 the empty pointer, which is also what a    *)
(* moved-from T holds; an original T that is borrowed from is named by its *)
(* address, 1 .. NumOriginals, and 0 is the null borrow of the default     *)
(* constructor.  -1 stands for the member of the union that is not alive.  *)
(***************************************************************************)
\* operator=(const MaybeOwned&) that borrows from an owning rhs; 10 is the
\* address of rhs.own_
copyAssignBorrowing(lhs, rhs) ==
    IF rhs.isBorrowed_
    THEN [lhs EXCEPT !.own_ = -1, !.borrow_ = rhs.borrow_, !.isBorrowed_ = TRUE]
    ELSE [lhs EXCEPT !.own_ = -1, !.borrow_ = 10, !.isBorrowed_ = TRUE]

\* operator=(const MaybeOwned& rhs) with this # &rhs: the value of *this
copyAssign(lhs, rhs) ==
    IF ~lhs.isBorrowed_
    THEN IF rhs.isBorrowed_
         THEN [lhs EXCEPT !.own_ = -1, !.borrow_ = rhs.borrow_,
                          !.isBorrowed_ = TRUE]
         ELSE [lhs EXCEPT !.own_ = rhs.own_]
    ELSE IF rhs.isBorrowed_
         THEN [lhs EXCEPT !.borrow_ = rhs.borrow_]
         ELSE [lhs EXCEPT !.borrow_ = -1, !.own_ = rhs.own_,
                          !.isBorrowed_ = FALSE]

\* operator=(MaybeOwned&& rhs) with this # &rhs: the values of *this and of
\* rhs, whose own_ is moved from
moveAssign(lhs, rhs) ==
    [lhs |-> copyAssign(lhs, rhs),
     rhs |-> IF rhs.isBorrowed_ THEN rhs ELSE [rhs EXCEPT !.own_ = 0]]

\* MaybeOwned::borrowed(t) constructs object i
borrowed(i, t) ==
    /\ ~maybeOwned.obj[i].constructed
    /\ maybeOwned' =
          [maybeOwned EXCEPT
              !.obj[i] = [constructed |-> TRUE, isBorrowed_ |-> TRUE,
                          borrow_ |-> t, own_ |-> -1],
              !.op = "borrowed", !.lhs = i, !.rhs = 0,
              !.rhsBefore = NotConstructed]
    /\ UNCHANGED <<entryVars, handleVars, slotVars, conversion, report,
                   update, operatorHasFallthroughForKey, storage>>

\* MaybeOwned::owned(std::move(t)) constructs object i
owned(i, t) ==
    /\ ~maybeOwned.obj[i].constructed
    /\ maybeOwned' =
          [maybeOwned EXCEPT
              !.obj[i] = [constructed |-> TRUE, isBorrowed_ |-> FALSE,
                          borrow_ |-> -1, own_ |-> t],
              !.op = "owned", !.lhs = i, !.rhs = 0,
              !.rhsBefore = NotConstructed]
    /\ UNCHANGED <<entryVars, handleVars, slotVars, conversion, report,
                   update, operatorHasFallthroughForKey, storage>>

\* obj[l] = obj[r]
CopyAssign(l, r) ==
    /\ maybeOwned.obj[l].constructed
    /\ maybeOwned.obj[r].constructed
    /\ maybeOwned' =
          [maybeOwned EXCEPT
              !.obj[l] = IF l = r THEN @
                         ELSE copyAssign(@, maybeOwned.obj[r]),
              !.op = "copy", !.lhs = l, !.rhs = r,
              !.rhsBefore = maybeOwned.obj[r]]
    /\ UNCHANGED <<entryVars, handleVars, slotVars, conversion, report,
                   update, operatorHasFallthroughForKey, storage>>

\* obj[l] = std::move(obj[r])
MoveAssign(l, r) ==
    /\ maybeOwned.obj[l].constructed
    /\ maybeOwned.obj[r].constructed
    /\ maybeOwned' =
          [maybeOwned EXCEPT
              !.obj = IF l = r THEN @
                      ELSE [i \in DOMAIN @ |->
                              IF i = l THEN moveAssign(@[l], @[r]).lhs
                              ELSE IF i = r THEN moveAssign(@[l], @[r]).rhs
                              ELSE @[i]],
              !.op = "move", !.lhs = l, !.rhs = r,
              !.rhsBefore = maybeOwned.obj[r]]
    /\ UNCHANGED <<entryVars, handleVars, slotVars, conversion, report,
                   update, operatorHasFallthroughForKey, storage>>

NextMaybeOwned ==
    \/ \E i \in 1 .. NumMaybeOwned, t \in 0 .. NumOriginals : borrowed(i, t)
    \/ \E i \in 1 .. NumMaybeOwned, t \in 0 .. NumOriginals : owned(i, t)
    \/ \E l \in 1 .. NumMaybeOwned, r \in 1 .. NumMaybeOwned : CopyAssign(l, r)
    \/ \E l \in 1 .. NumMaybeOwned, r \in 1 .. NumMaybeOwned : MoveAssign(l, r)

SpecMaybeOwned == InitNoFallbacks /\ [][NextMaybeOwned]_vars

(***************************************************************************)
(* c10::StorageImpl.  An allocator is named by a number, 0 the null        *)
(* pointer; a data pointer and a size are numbers.  A failed assertion     *)
(* throws: the constructor leaves no object, set_resizable leaves the      *)
(* object as it was.                                                       *)
(***************************************************************************)
\* StorageImpl(use_byte_size_t, size_bytes, data_ptr, allocator, resizable)
StorageImpl(size_bytes, data_ptr, allocator, resizable) ==
    /\ ~storage.constructed
    /\ storage' =
          IF resizable /\ allocator = nullptr
          THEN [storage EXCEPT !.error = "INTERNAL ASSERT FAILED"]
          ELSE [constructed |-> TRUE, data_ptr_ |-> data_ptr,
                size_bytes_ |-> size_bytes, resizable_ |-> resizable,
                allocator_ |-> allocator, error |-> ""]
    /\ UNCHANGED <<entryVars, handleVars, slotVars, conversion, report,
                   update, operatorHasFallthroughForKey, maybeOwned>>

set_allocator(allocator) ==
    /\ storage.constructed
    /\ storage' = [storage EXCEPT !.allocator_ = allocator, !.error = ""]
    /\ UNCHANGED <<entryVars, handleVars, slotVars, conversion, report,
                   update, operatorHasFallthroughForKey, maybeOwned>>

set_resizable(resizable) ==
    /\ storage.constructed
    /\ storage' =
          IF resizable /\ storage.allocator_ = nullptr
          THEN [storage EXCEPT !.error = "AT_ASSERT"]
          ELSE [storage EXCEPT !.resizable_ = resizable, !.error = ""]
    /\ UNCHANGED <<entryVars, handleVars, slotVars, conversion, report,
                   update, operatorHasFallthroughForKey, maybeOwned>>

UniqueStorageShareExternalPointer(data_ptr, size_bytes) ==
    /\ storage.constructed
    /\ storage' =
          [storage EXCEPT !.data_ptr_ = data_ptr, !.size_bytes_ = size_bytes,
                          !.allocator_ = nullptr, !.resizable_ = FALSE,
                          !.error = ""]
    /\ UNCHANGED <<entryVars, handleVars, slotVars, conversion, report,
                   update, operatorHasFallthroughForKey, maybeOwned>>

NextStorage ==
    \/ \E size_bytes \in 0 .. MaxSizeBytes, data_ptr \in 0 .. MaxSizeBytes,
          allocator \in 0 .. NumAllocators, resizable \in BOOLEAN :
          StorageImpl(size_bytes, data_ptr, allocator, resizable)
    \/ \E allocator \in 0 .. NumAllocators : set_allocator(allocator)
    \/ \E resizable \in BOOLEAN : set_resizable(resizable)
    \/ \E data_ptr \in 0 .. MaxSizeBytes, size_bytes \in 0 .. MaxSizeBytes :
          UniqueStorageShareExternalPointer(data_ptr, size_bytes)

SpecStorage == InitNoFallbacks /\ [][NextStorage]_vars

(***************************************************************************)
(* reportError.  The dispatch table has num_runtime_entries entries: the   *)
(* position of a key's entry is a number below that, the offset of the     *)
(* key's functionality plus the number of its backend, and not the value   *)
(* of the key.  The model names an entry by its key; dispatchTableIndex is *)
(* the position, which listAllDispatchKeys converts to a DispatchKey.      *)
(***************************************************************************)
numPerBackendFunctionalityKeys ==
    Cardinality({k \in 0 .. num_functionality_keys :
                    isPerBackendFunctionalityKey(k)})

num_runtime_entries ==
    num_functionality_keys + numPerBackendFunctionalityKeys * (num_backends - 1)

\* the value of getDispatchTableIndexForDispatchKey(k)
dispatchTableIndex(k) ==
    LET f == toFunctionalityKey(k)
        offset ==
            f + (num_backends - 1)
                * Cardinality({p \in 0 .. (f - 1) : isPerBackendFunctionalityKey(p)})
    IN  IF getDispatchTableIndexForDispatchKey(k) = -1 THEN -1
        ELSE IF isPerBackendFunctionalityKey(f)
        THEN offset + toBackendComponent(k) - 1
        ELSE offset

\* the keys listAllDispatchKeys writes, in the order of the loop:
\* static_cast<DispatchKey>(iter) for every key of the full set whose entry
\* is valid
listAllDispatchKeys(tbl) ==
    LET RECURSIVE list(_)
        list(S) ==
            IF S = {} THEN <<>>
            ELSE LET k == CHOOSE x \in S : \A y \in S : x <= y
                 IN  <<dispatchTableIndex(k)>> \o list(S \ {k})
    IN  list({k \in KeysOf(FULL) :
                /\ getDispatchTableIndexForDispatchKey(k) # -1
                /\ isValid(tbl[getDispatchTableIndexForDispatchKey(k)])})

\* OperatorEntry::reportError: checkInvariants, then the error that lists
\* the keys with a kernel
ReportError(dispatchKey) ==
    /\ report' =
          \* the three assertions of checkInvariants
          IF ~(/\ assertNoUndefinedKernel(kernels)
               /\ (\A k \in DOMAIN kernels : Len(kernels[k]) > 0)
               /\ checkInvariants)
          THEN [error |-> "INTERNAL ASSERT FAILED", listed |-> <<>>]
          ELSE [error |-> "NotImplementedError",
                listed |-> listAllDispatchKeys(dispatchTable)]
    /\ last' = [op |-> "reportError", dispatch_key |-> dispatchKey, pos |-> 0,
                before |-> Entry, registration |-> NoEntry,
                arguments |-> NoArguments, error |-> ""]
    /\ UNCHANGED <<kernels, annotated, dispatchTable, schema_, cpp_signature_,
                   backendFallbackKernels, handleVars, slotVars, conversion,
                   update, operatorHasFallthroughForKey, maybeOwned, storage>>

NextReport ==
    \/ \E dispatch_key \in
          {Undefined, CPU, Autograd, CompositeImplicitAutograd,
           CompositeExplicitAutograd} :
          /\ dispatch_key = Undefined \/ assertNoUndefinedKernel(kernels)
          /\ RegisterKernel(dispatch_key, NewKernel(kernels, dispatch_key),
                            nullopt, nullptr)
    \/ \E dispatch_key \in
          {Undefined, CPU, Autograd, CompositeImplicitAutograd,
           CompositeExplicitAutograd},
          pos \in 1 .. MaxRegistrations :
          /\ dispatch_key = Undefined \/ assertNoUndefinedKernel(kernels)
          /\ DeregisterKernel(dispatch_key, pos)
    \/ \E dispatchKey \in {Undefined, CPU} : ReportError(dispatchKey)

SpecReport == InitNoFallbacks /\ [][NextReport]_vars

(***************************************************************************)
(* Properties of the entry.                                                *)
(***************************************************************************)
\* the key of kernels_ a registerKernel or deregisterKernel_ call with
\* argument dispatch_key works on
KeyOf(dispatch_key) ==
    IF dispatch_key # nullopt THEN dispatch_key ELSE CompositeImplicitAutograd

\* C1: after any sequence of registerKernel, deregisterKernel and fallback
\* changes followed by updateFallback, every slot of the live dispatch table,
\* for each runtime key and for Undefined, equals computeDispatchTableEntry
\* of that key derived from the current kernels_ and fallbacks.
C1_TableEqualsRecomputed ==
    \A k \in Slots :
        dispatchTable[getDispatchTableIndexForDispatchKey(k)] =
            computeDispatchTableEntry(kernels, backendFallbackKernels, k)

\* C2: registerKernel followed immediately by deregisterKernel_ with the
\* key and position it returned leaves kernels_ and every slot of the
\* dispatch table as they were before the registration, whatever the key
\* argument (absent, runtime, per-backend functionality or alias).
C2_RegisterDeregisterRestores ==
    (last.op = "deregisterKernel" /\ last.registration # NoEntry) =>
        /\ kernels = last.registration.kernels
        /\ \A k \in Slots :
              dispatchTable[k] = last.registration.dispatchTable[k]

\* C3: when kernel A is active for key K and kernel B is registered to K,
\* getKernelForDispatchKey(K) is B, and K's slot holds B if K is a runtime
\* key; when B is then deregistered with its token, getKernelForDispatchKey(K)
\* is A again and K's slot holds A.
C3_ShadowAndRestore ==
    LET K == KeyOf(last.dispatch_key)
        was == last.before.kernels
    IN  /\ (last.op = "registerKernel" /\ K \in DOMAIN was) =>
              LET A == Head(was[K])
                  B == NewKernel(was, last.dispatch_key)
              IN  /\ B # A
                  /\ getKernelForDispatchKey(kernels, K) = <<B>>
                  /\ K \in RuntimeKeys => dispatchTable[K] = B
        /\ (/\ last.op = "deregisterKernel"
            /\ last.pos = 1
            /\ Len(was[K]) > 1) =>
              LET A == was[K][2]
                  B == was[K][1]
              IN  /\ B # A
                  /\ getKernelForDispatchKey(kernels, K) = <<A>>
                  /\ K \in RuntimeKeys => dispatchTable[K] = A

\* C3: kernel B, registered to CPU over A, has just been deregistered and
\* the CPU slot holds A again
C3_Witness ==
    /\ last.op = "deregisterKernel"
    /\ last.dispatch_key = CPU
    /\ last.pos = 1
    /\ Len(last.before.kernels[CPU]) = 2
    /\ last.before.dispatchTable[CPU] = last.before.kernels[CPU][1]
    /\ dispatchTable[CPU] = last.before.kernels[CPU][2]

\* the runtime keys of the backends
BackendRuntimeKeys == {k \in RuntimeKeys : isBackendDispatchKey(k)}

\* the first key of the list keys that has a kernel registered, or nullopt
FirstRegistered(keys) ==
    LET I == {i \in 1 .. Len(keys) : keys[i] \in DOMAIN kernels}
    IN  IF I = {} THEN nullopt
        ELSE keys[CHOOSE i \in I : \A j \in I : i <= j]

\* the sources of a kernel for backend key K, highest precedence first
PrecedenceOrder(K) ==
    <<K, CompositeExplicitAutogradNonFunctional, CompositeExplicitAutograd,
      CompositeImplicitAutograd>>

\* C4 as stated: for a runtime backend key K and any registrations among
\* direct to K, CompositeExplicitAutogradNonFunctional,
\* CompositeExplicitAutograd and CompositeImplicitAutograd, in any order,
\* K's slot holds the kernel of the registered source of highest precedence.
C4_PrecedenceAmongRegistered ==
    \A K \in BackendRuntimeKeys :
        LET source == FirstRegistered(PrecedenceOrder(K))
        IN  source # nullopt => dispatchTable[K] = Head(kernels[source])

\* the sources of PrecedenceOrder(K) that apply to K: K itself and the
\* aliases whose key set K belongs to
ApplicableOrder(K) ==
    SelectSeq(PrecedenceOrder(K), LAMBDA a : a = K \/ isIncludedInAlias(K, a))

\* C4 amended: for a runtime backend key K, K's slot holds the kernel of the
\* highest-precedence source registered among direct to K and those of the
\* three composite aliases whose key set contains K
\* (CompositeExplicitAutogradNonFunctional leaves out the functional
\* backends XLA and Lazy), whatever the order of registration.
C4_PrecedenceAmongApplicable ==
    \A K \in BackendRuntimeKeys :
        LET source == FirstRegistered(ApplicableOrder(K))
        IN  source # nullopt => dispatchTable[K] = Head(kernels[source])

\* C4: both explicit aliases are registered; XLA, outside the key set of
\* CompositeExplicitAutogradNonFunctional, has the CompositeExplicitAutograd
\* kernel and CPU the CompositeExplicitAutogradNonFunctional kernel
C4_Witness ==
    /\ CompositeExplicitAutogradNonFunctional \in DOMAIN kernels
    /\ CompositeExplicitAutograd \in DOMAIN kernels
    /\ dispatchTable[XLA] = Head(kernels[CompositeExplicitAutograd])
    /\ dispatchTable[CPU] = Head(kernels[CompositeExplicitAutogradNonFunctional])

\* a key of a backend whose autograd key is AutogradOther
FunnelsIntoAutogradOther(k) ==
    /\ isBackendDispatchKey(k)
    /\ getAutogradKeyFromBackend(toBackendComponent(k)) = AutogradOther

\* C5: when a CompositeImplicitAutograd kernel is registered, no kernel is
\* registered to AutogradOther, and a backend that funnels into
\* AutogradOther has a direct kernel, the AutogradOther slot holds the
\* ambiguous marker and not the CompositeImplicitAutograd kernel.
C5_AmbiguousAutogradOther ==
    (/\ CompositeImplicitAutograd \in DOMAIN kernels
     /\ AutogradOther \notin DOMAIN kernels
     /\ \E k \in DOMAIN kernels : FunnelsIntoAutogradOther(k)) =>
        /\ dispatchTable[AutogradOther] = ambiguousAutogradOtherKernel
        /\ dispatchTable[AutogradOther] # Head(kernels[CompositeImplicitAutograd])

\* C5: FPGA, which has no autograd key of its own, and
\* CompositeImplicitAutograd both have a kernel, and the AutogradOther slot
\* holds the ambiguous marker
C5_Witness ==
    /\ CompositeImplicitAutograd \in DOMAIN kernels
    /\ FPGA \in DOMAIN kernels
    /\ AutogradOther \notin DOMAIN kernels
    /\ dispatchTable[AutogradOther] = ambiguousAutogradOtherKernel

\* no rule of computeDispatchTableEntryWithDebug before the backend fallback
\* gives key k a kernel: no direct registration and no alias applies
NoKernelApplies(k) ==
    computeDispatchTableEntryWithDebug(kernels, backendFallbackKernels, k)[2]
        \in {"backend fallback", "missing"}

\* C6: registering or unregistering the backend fallback of key B, with its
\* updateFallback(B), changes only slots no direct or alias-derived kernel
\* applies to; an entry with a direct kernel for B keeps that kernel in B's
\* slot, and the slots of other backends are unchanged.
C6_FallbackChangesOnlyFallbackSlots ==
    last.op \in {"registerFallback", "deregisterFallback"} =>
        LET B == last.dispatch_key
            old == last.before.dispatchTable
        IN  /\ \A s \in Slots : dispatchTable[s] # old[s] => NoKernelApplies(s)
            /\ B \in DOMAIN kernels =>
                  /\ dispatchTable[B] = old[B]
                  /\ dispatchTable[B] = Head(kernels[B])
            /\ \A s \in Slots :
                  toBackendComponent(s) # toBackendComponent(B) =>
                      dispatchTable[s] = old[s]

\* the runtime keys of the Dense functionality, one for each backend
DenseBackendKeys ==
    {toRuntimePerBackendFunctionalityKey(Dense, b) : b \in BackendBits}

\* kernels_ holds one kernel, registered to CompositeImplicitAutograd
OnlyMathKernel(ks) ==
    /\ DOMAIN ks = {CompositeImplicitAutograd}
    /\ Len(ks[CompositeImplicitAutograd]) = 1

\* C7: with only a CompositeImplicitAutograd kernel K_math registered, every
\* dense backend key resolves to K_math with the provenance "math kernel";
\* once a kernel K_cpu is registered at CPU as well, CPU resolves to K_cpu
\* with the provenance "kernel" and CUDA still to K_math.
C7_MathKernelThenCPUKernel ==
    /\ OnlyMathKernel(kernels) =>
          \A k \in DenseBackendKeys :
              /\ dispatchTable[k] = Head(kernels[CompositeImplicitAutograd])
              /\ computeDispatchTableEntryWithDebug(kernels, backendFallbackKernels, k)
                    = <<Head(kernels[CompositeImplicitAutograd]), "math kernel">>
    /\ (/\ last.op = "registerKernel"
        /\ last.dispatch_key = CPU
        /\ OnlyMathKernel(last.before.kernels)) =>
          LET K_math == Head(last.before.kernels[CompositeImplicitAutograd])
              K_cpu == NewKernel(last.before.kernels, CPU)
          IN  /\ K_cpu # K_math
              /\ dispatchTable[CPU] = K_cpu
              /\ computeDispatchTableEntryWithDebug(kernels, backendFallbackKernels, CPU)
                    = <<K_cpu, "kernel">>
              /\ dispatchTable[CUDA] = K_math
              /\ computeDispatchTableEntryWithDebug(kernels, backendFallbackKernels, CUDA)
                    = <<K_math, "math kernel">>

\* C7: K_cpu has just been registered at CPU in an entry that had K_math only
C7_Witness ==
    /\ last.op = "registerKernel"
    /\ last.dispatch_key = CPU
    /\ OnlyMathKernel(last.before.kernels)
    /\ last.before.dispatchTable[CPU] = Head(kernels[CompositeImplicitAutograd])
    /\ dispatchTable[CPU] = Head(kernels[CPU])
    /\ dispatchTable[CUDA] = Head(kernels[CompositeImplicitAutograd])

\* the runtime keys of the backend of key K: those of K's backend when K is
\* an autograd key, and K itself otherwise
BackendKeysOf(K) ==
    IF K \in KeysOf(autograd_dispatch_keyset)
    THEN {b \in BackendRuntimeKeys : getAutogradKeyFromBackend(toBackendComponent(b)) = K}
    ELSE {K}

\* rule 1, 2 or 3 gives a kernel to a key of K's backend
BackendHasKernel(K) ==
    \/ \E k \in DOMAIN kernels : k \in BackendKeysOf(K)
    \/ \E alias \in {CompositeExplicitAutogradNonFunctional, CompositeExplicitAutograd} :
          /\ alias \in DOMAIN kernels
          /\ \E b \in BackendKeysOf(K) : isIncludedInAlias(b, alias)

\* C8: the CompositeImplicitAutograd kernel is not selected for a key K
\* whose backend has a direct registration or a kernel of rule 2 or rule 3;
\* in particular no autograd key resolves to it while a
\* CompositeExplicitAutogradNonFunctional kernel is registered.
C8_ImplicitNotOverSpecific ==
    \A K \in RuntimeKeys :
        computeDispatchTableEntryWithDebug(kernels, backendFallbackKernels, K)[2]
            = "math kernel" =>
                /\ ~BackendHasKernel(K)
                /\ K \in KeysOf(autograd_dispatch_keyset) =>
                      CompositeExplicitAutogradNonFunctional \notin DOMAIN kernels

\* C9: for a key K, runtime or Undefined, that rules 1 to 4 give no kernel,
\* computeDispatchTableEntry(K) is the kernel of the Autograd alias if K is
\* in the alias's key set and the kernel exists, else the backend fallback
\* of K's slot if valid, else the missing kernel, which is not valid; the
\* Autograd kernel is never the entry of a key outside the alias's key set.
C9_AutogradThenFallbackThenMissing ==
    \A K \in Slots :
        LET entry == computeDispatchTableEntry(kernels, backendFallbackKernels, K)
            rule == computeDispatchTableEntryWithDebug(kernels, backendFallbackKernels, K)[2]
            inAutograd == K \in KeysOf(getRuntimeDispatchKeySet(Autograd))
        IN  /\ rule \notin {"kernel", "default backend kernel",
                            "ambiguous autogradother", "math kernel"} =>
                  IF inAutograd /\ Autograd \in DOMAIN kernels
                  THEN entry = Head(kernels[Autograd])
                  ELSE IF isValid(backendFallbackKernels[K])
                  THEN entry = backendFallbackKernels[K]
                  ELSE entry = missingKernel /\ ~isValid(entry)
            /\ (Autograd \in DOMAIN kernels /\ ~inAutograd) =>
                  entry # Head(kernels[Autograd])

\* C9: AutogradCPU and CPU both have a backend fallback and an Autograd
\* kernel is registered: AutogradCPU resolves to the Autograd kernel, CPU to
\* its fallback and CUDA to the missing kernel
C9_Witness ==
    /\ Autograd \in DOMAIN kernels
    /\ isValid(backendFallbackKernels[AutogradCPU])
    /\ isValid(backendFallbackKernels[CPU])
    /\ computeDispatchTableEntry(kernels, backendFallbackKernels, AutogradCPU)
          = Head(kernels[Autograd])
    /\ computeDispatchTableEntry(kernels, backendFallbackKernels, CPU)
          = backendFallbackKernels[CPU]
    /\ computeDispatchTableEntry(kernels, backendFallbackKernels, CUDA)
          = missingKernel

\* C10: after a kernel is registered or deregistered at a backend's runtime
\* key B, the slot of the autograd key of B's backend equals its recomputed
\* entry; a slot that held the CompositeImplicitAutograd kernel before a
\* kernel was registered at B does not hold it afterwards.
C10_AutogradKeyRefreshed ==
    (/\ last.op \in {"registerKernel", "deregisterKernel"}
     /\ last.dispatch_key \in BackendRuntimeKeys) =>
        LET autograd_key ==
                getAutogradKeyFromBackend(toBackendComponent(last.dispatch_key))
            was == last.before
        IN  /\ dispatchTable[autograd_key] =
                  computeDispatchTableEntry(kernels, backendFallbackKernels,
                                            autograd_key)
            /\ (/\ last.op = "registerKernel"
                /\ CompositeImplicitAutograd \in DOMAIN was.kernels
                /\ was.dispatchTable[autograd_key] =
                      Head(was.kernels[CompositeImplicitAutograd])) =>
                  dispatchTable[autograd_key] #
                      Head(was.kernels[CompositeImplicitAutograd])

\* C10: a kernel has just been registered at CPU and the AutogradCPU slot,
\* which held the CompositeImplicitAutograd kernel, no longer does
C10_Witness ==
    /\ last.op = "registerKernel"
    /\ last.dispatch_key = CPU
    /\ CompositeImplicitAutograd \in DOMAIN last.before.kernels
    /\ last.before.dispatchTable[AutogradCPU] =
          Head(last.before.kernels[CompositeImplicitAutograd])
    /\ dispatchTable[AutogradCPU] # last.before.dispatchTable[AutogradCPU]

\* C11: an entry constructed after backend fallbacks were registered has,
\* right after construction and before any kernel registration, the fallback
\* kernel in the slot of every key that has a fallback and the missing kernel
\* in every slot without one.
C11_ConstructionPicksUpFallbacks ==
    last.op = "OperatorEntry" =>
        \A k \in Slots :
            dispatchTable[getDispatchTableIndexForDispatchKey(k)] =
                IF isValid(backendFallbackKernels[getDispatchTableIndexForDispatchKey(k)])
                THEN backendFallbackKernels[getDispatchTableIndexForDispatchKey(k)]
                ELSE missingKernel

\* C11: the entry has just been constructed with a fallback registered for
\* CPU and none for AutogradCPU
C11_Witness ==
    /\ last.op = "OperatorEntry"
    /\ kernels = NoKernels
    /\ backendFallbackKernels[CPU] = FallbackKernel(CPU)
    /\ ~isValid(backendFallbackKernels[AutogradCPU])
    /\ dispatchTable[CPU] = FallbackKernel(CPU)
    /\ dispatchTable[AutogradCPU] = missingKernel

\* the slots the last call passed to updateDispatchTableEntry_
EntriesWritten ==
    LET keys ==
            CASE last.op = "registerKernel" /\ last.dispatch_key # nullopt ->
                     EntriesUpdated(last.dispatch_key)
              [] last.op = "deregisterKernel" ->
                     EntriesUpdated(KeyOf(last.dispatch_key))
              [] last.op \in {"registerFallback", "deregisterFallback"} ->
                     EntriesUpdated(last.dispatch_key)
              [] OTHER -> {Undefined} \cup FullEntriesUpdated
    IN  {getDispatchTableIndexForDispatchKey(k) : k \in keys} \ {-1}

\* C12: every change of a catch-all registration, registerKernel and
\* deregisterKernel_ with an absent key alike, performs a full recomputation:
\* the slots of all runtime keys and of Undefined are rewritten, from the
\* current kernels_.
C12_CatchAllFullRecomputation ==
    (/\ last.op \in {"registerKernel", "deregisterKernel"}
     /\ last.dispatch_key = nullopt) =>
        /\ Slots \subseteq EntriesWritten
        /\ \A k \in Slots :
              dispatchTable[k] =
                  computeDispatchTableEntry(kernels, backendFallbackKernels, k)

\* C12 (amended): registerKernel with an absent key performs a full
\* recomputation, rewriting the slots of all runtime keys and of Undefined;
\* deregisterKernel_ with an absent key rewrites only the slots of the
\* runtime keys of CompositeImplicitAutograd and the Undefined slot; after
\* either call every slot equals its entry recomputed from the current
\* kernels_.
C12_CatchAllRecomputation ==
    (/\ last.op \in {"registerKernel", "deregisterKernel"}
     /\ last.dispatch_key = nullopt) =>
        /\ last.op = "registerKernel" => Slots \subseteq EntriesWritten
        /\ last.op = "deregisterKernel" =>
              EntriesWritten =
                  {getDispatchTableIndexForDispatchKey(k) :
                      k \in KeysOf(getRuntimeDispatchKeySet(CompositeImplicitAutograd))
                            \cup {Undefined}}
        /\ \A k \in Slots :
              dispatchTable[k] =
                  computeDispatchTableEntry(kernels, backendFallbackKernels, k)

\* C12: the only catch-all kernel has just been deregistered; the call left
\* some slots unwritten and took the kernel out of the CPU slot
C12_Witness ==
    /\ last.op = "deregisterKernel"
    /\ last.dispatch_key = nullopt
    /\ Slots \ EntriesWritten # {}
    /\ CompositeImplicitAutograd \notin DOMAIN kernels
    /\ last.before.dispatchTable[CPU] =
          Head(last.before.kernels[CompositeImplicitAutograd])
    /\ dispatchTable[CPU] = missingKernel

\* the inferred schemas and signatures of all list entries of a kernel map
Annotations(anns) ==
    UNION {{anns[k][j] : j \in 1 .. Len(anns[k])} : k \in DOMAIN anns}

\* C13: the schema of an entry follows a two-state protocol.  registerSchema
\* succeeds only when no schema is registered and then stores its argument;
\* deregisterSchema succeeds only when a schema is registered and then clears
\* it; registerSchema on an entry with a schema and deregisterSchema on an
\* entry without one fail and leave schema_, kernels_ and the dispatch table
\* unchanged.
C13_SchemaProtocol ==
    /\ last.op = "registerSchema" =>
          /\ last.error = "" =>
                /\ last.before.schema = nullopt
                /\ schema_ = last.arguments.schema
          /\ last.before.schema # nullopt =>
                /\ last.error # ""
                /\ schema_ = last.before.schema
                /\ kernels = last.before.kernels
                /\ dispatchTable = last.before.dispatchTable
    /\ last.op = "deregisterSchema" =>
          /\ last.error = "" =>
                /\ last.before.schema # nullopt
                /\ schema_ = nullopt
          /\ last.before.schema = nullopt =>
                /\ last.error # ""
                /\ schema_ = nullopt
                /\ kernels = last.before.kernels
                /\ dispatchTable = last.before.dispatchTable

\* C13: registerSchema has just failed on an entry that has a kernel and a
\* schema other than the one of the call
C13_Witness ==
    /\ last.op = "registerSchema"
    /\ last.error # ""
    /\ last.before.schema # nullopt
    /\ last.arguments.schema # last.before.schema
    /\ schema_ = last.before.schema
    /\ kernels # NoKernels

\* C14: registerSchema compares the new schema with the inferred schema of
\* every registered kernel that has one, the active and the shadowed kernels
\* of every key alike; if one of them differs the call fails and the entry
\* has no schema afterwards, and if none differs the schema is stored.
C14_SchemaCheckedAgainstAllKernels ==
    (last.op = "registerSchema" /\ last.before.schema = nullopt) =>
        IF \E a \in Annotations(last.before.annotated) :
               /\ a.inferred_function_schema # nullptr
               /\ a.inferred_function_schema # last.arguments.schema
        THEN last.error # "" /\ schema_ = nullopt
        ELSE last.error = "" /\ schema_ = last.arguments.schema

\* C14: registerSchema has just failed because of a shadowed kernel alone:
\* the active kernel of the key has the inferred schema of the call
C14_Witness ==
    /\ last.op = "registerSchema"
    /\ last.error = "schema mismatch"
    /\ schema_ = nullopt
    /\ DOMAIN annotated = {CPU}
    /\ Len(annotated[CPU]) = 2
    /\ annotated[CPU][1].inferred_function_schema = last.arguments.schema
    /\ annotated[CPU][2].inferred_function_schema \notin
          {nullptr, last.arguments.schema}

C16_FailedRegistrationChangesNothing ==
    (last.op = "registerKernel" /\ last.error # "") =>
        /\ kernels = last.before.kernels
        /\ \A k \in Slots : dispatchTable[k] = last.before.dispatchTable[k]

\* C16: a registerKernel call has just failed on the declared schema, on an
\* entry that has a kernel registered
C16_Witness ==
    /\ last.op = "registerKernel"
    /\ last.error = "schema mismatch"
    /\ last.arguments.inferred_function_schema # schema_
    /\ kernels # NoKernels
    /\ kernels = last.before.kernels

\* C17: in every reachable state every key present in kernels_ has a
\* non-empty registration list; deregisterKernel_ removes exactly the list
\* entry its token names, and removes the key from the map when that was its
\* last entry.
C17_NoEmptyRegistrationList ==
    /\ \A k \in DOMAIN kernels : Len(kernels[k]) > 0
    /\ last.op = "deregisterKernel" =>
          LET K == KeyOf(last.dispatch_key)
              was == last.before.kernels
          IN  /\ DOMAIN kernels \cup {K} = DOMAIN was
              /\ \A x \in DOMAIN was \ {K} : kernels[x] = was[x]
              /\ (K \notin DOMAIN kernels) = (Len(was[K]) = 1)
              /\ K \in DOMAIN kernels =>
                    /\ Len(kernels[K]) = Len(was[K]) - 1
                    /\ \A i \in 1 .. Len(kernels[K]) :
                          kernels[K][i] =
                              was[K][IF i < last.pos THEN i ELSE i + 1]

\* C17: the last kernel of CPU has just been deregistered, which removed the
\* key from kernels_ and left the list of another key
C17_Witness ==
    /\ last.op = "deregisterKernel"
    /\ last.dispatch_key = CPU
    /\ Len(last.before.kernels[CPU]) = 1
    /\ CPU \notin DOMAIN kernels
    /\ kernels # NoKernels

\* C18: a thread that reads a dispatch-table entry while a registration or
\* deregistration assigns to it observes a complete kernel handle that was
\* assigned to the entry at some time: the functor, the boxed pointer and the
\* unboxed pointer it has read are those of one such handle, never a mixture
\* of the old and the new one.
C18_LookupSeesPublishedHandle ==
    lookup.pc = "done" => lookup.seen \in published

\* the result of an invocation of the handle by one thread alone
SequentialResult(m) ==
    CASE m.by \in {"makeFromBoxedFunction", "makeFromUnboxedFunctor"} -> m.func
      [] m.by = "makeFallthrough" -> "fallthrough_kernel"
      [] m.by = "makeAmbiguousAutogradOther" -> "ambiguous_autogradother_kernel"
      [] m.by = "makeNamedNotSupported" -> "named_not_supported_kernel"
      [] OTHER -> "error"

C20_HandleValidity ==
    /\ KernelFunction_isValid(handle) =
          (\/ handle.boxed_kernel_func_ # NoFunction
           \/ handle.unboxed_kernel_func_ # NoFunction)
    /\ made.by = "KernelFunction" => ~KernelFunction_isValid(handle)
    /\ made.by = "makeFromBoxedFunction" =>
          /\ KernelFunction_isValid(handle)
          /\ ~KernelFunction_isValidUnboxed(handle)
    /\ made.by = "makeFromUnboxedFunctor" => KernelFunction_isValid(handle)
    /\ KernelFunction_isFallthrough(handle) = (made.by = "makeFallthrough")

\* C20: a handle made from an unboxed functor, whose unboxed invoke form
\* alone is present, has been invoked by a thread
C20_Witness ==
    /\ made.by = "makeFromUnboxedFunctor"
    /\ handle.boxed_kernel_func_ = NoFunction
    /\ KernelFunction_isValid(handle)
    /\ \E t \in Threads : calls[t].pc = "done"

\* C21: for every valid handle, call and callBoxed run the same underlying
\* kernel and yield the same result, whichever form the handle was made
\* from; call uses the unboxed form directly when it is present and goes
\* through the boxed form otherwise; invoking an invalid handle fails.
C21_CallAndCallBoxedAgree ==
    /\ \A t, u \in Threads :
          (calls[t].pc = "done" /\ calls[u].pc = "done") =>
              /\ calls[t].result = calls[u].result
              /\ calls[t].func.target = calls[u].func.target
    /\ \A t \in Threads :
          calls[t].pc = "done" =>
              /\ (calls[t].result = "error") = ~KernelFunction_isValid(handle)
              /\ (calls[t].via = "call" /\ KernelFunction_isValid(handle)) =>
                    calls[t].func =
                        IF KernelFunction_isValidUnboxed(handle)
                        THEN handle.unboxed_kernel_func_
                        ELSE handle.boxed_kernel_func_

\* C21: on a handle made from an unboxed functor, one thread has completed
\* call and another callBoxed, with the result of the functor
C21_Witness ==
    /\ made.by = "makeFromUnboxedFunctor"
    /\ \E t, u \in Threads :
          /\ calls[t].pc = "done" /\ calls[t].via = "call"
          /\ calls[u].pc = "done" /\ calls[u].via = "callBoxed"
          /\ calls[t].func # calls[u].func
          /\ calls[t].result = made.func
          /\ calls[u].result = made.func

\* the keys the last call passed to updateDispatchTableEntry_
KeysUpdated ==
    CASE last.op = "registerKernel" /\ last.error # "" -> {}
      [] last.op = "registerKernel" /\ last.dispatch_key # nullopt ->
             EntriesUpdated(last.dispatch_key)
      [] last.op = "deregisterKernel" ->
             EntriesUpdated(KeyOf(last.dispatch_key))
      [] last.op \in {"registerFallback", "deregisterFallback"} ->
             EntriesUpdated(last.dispatch_key)
      [] last.op \in {"registerSchema", "deregisterSchema"} -> {}
      [] OTHER -> {Undefined} \cup FullEntriesUpdated

\* C22: no alias key is used as a dispatch-table index.  In registerKernel,
\* deregisterKernel_, updateFallback and the full recomputation every key
\* passed to updateDispatchTableEntry_ is a runtime key or Undefined, also
\* when the key of the call is an alias key; the slots that changed are
\* slots of such keys.
C22_NoAliasKeyIndexesTable ==
    /\ \A k \in KeysUpdated :
          /\ ~isAliasDispatchKey(k)
          /\ k \in RuntimeKeys \cup {Undefined}
          /\ getDispatchTableIndexForDispatchKey(k) \in DOMAIN dispatchTable
    /\ \A s \in DOMAIN dispatchTable :
          /\ ~isAliasDispatchKey(s)
          /\ dispatchTable[s] # last.before.dispatchTable[s] =>
                s \in {getDispatchTableIndexForDispatchKey(k) : k \in KeysUpdated}

\* C22: a kernel has just been registered at the alias key
\* CompositeExplicitAutograd, which wrote the slots of CPU and of Undefined
C22_Witness ==
    /\ last.op = "registerKernel"
    /\ last.dispatch_key = CompositeExplicitAutograd
    /\ isAliasDispatchKey(last.dispatch_key)
    /\ {CPU, Undefined} \subseteq KeysUpdated
    /\ dispatchTable[CPU] = Head(kernels[CompositeExplicitAutograd])
    /\ dispatchTable[CPU] # last.before.dispatchTable[CPU]

\* C23: decomposition and recomposition of per-backend runtime keys are
\* inverse.  A key of the per-backend runtime ranges is the recomposition of
\* its functionality and its backend component; the runtime key made of a
\* per-backend functionality and a backend component other than InvalidBit
\* decomposes into that functionality and that component.
C23_DecomposeRecomposeInverse ==
    /\ (conversion.op = "decompose"
            /\ conversion.k >= StartOfDenseBackends
            /\ conversion.k <= EndOfRuntimeBackendKeys)
          => conversion.runtime_k = conversion.k
    /\ (conversion.op = "recompose"
            /\ isPerBackendFunctionalityKey(conversion.k)
            /\ conversion.b # InvalidBit)
          => /\ conversion.functionality_k = conversion.k
             /\ conversion.backend_k = conversion.b

\* C23: (Sparse, CUDABit) has been recomposed into SparseCPU + 1 and
\* decomposed again
C23_Witness ==
    /\ conversion.op = "recompose"
    /\ conversion.k = Sparse
    /\ conversion.b = CUDABit
    /\ conversion.runtime_k = SparseCPU + 1
    /\ conversion.functionality_k = Sparse

\* C24: the key ranges are disjoint and the alias keys sort after all
\* runtime keys.  isAliasDispatchKey holds exactly of Autograd and the three
\* composite keys, each greater than EndOfRuntimeBackendKeys; a key is in at
\* most one of the five per-backend ranges, and a key of one of them is not
\* a functionality key; for an alias key toFunctionalityKey returns
\* Undefined and toBackendComponent returns InvalidBit.
C24_KeyRangesDisjoint ==
    LET k == conversion.k
        ranges ==
            {<<StartOfDenseBackends, EndOfDenseBackends>>,
             <<StartOfQuantizedBackends, EndOfQuantizedBackends>>,
             <<StartOfSparseBackends, EndOfSparseBackends>>,
             <<StartOfNestedTensorBackends, EndOfNestedTensorBackends>>,
             <<StartOfAutogradBackends, EndOfAutogradBackends>>}
        rangesOf == {r \in ranges : k >= r[1] /\ k <= r[2]}
    IN  conversion.op = "decompose" =>
          /\ conversion.alias <=>
                k \in {Autograd, CompositeImplicitAutograd,
                       CompositeExplicitAutograd,
                       CompositeExplicitAutogradNonFunctional}
          /\ conversion.alias <=> (k >= StartOfAliasKeys /\ k <= EndOfAliasKeys)
          /\ conversion.alias =>
                /\ k > EndOfRuntimeBackendKeys
                /\ rangesOf = {}
                /\ conversion.functionality_k = Undefined
                /\ conversion.backend_k = InvalidBit
          /\ Cardinality(ranges) = 5
          /\ Cardinality(rangesOf) <= 1
          /\ rangesOf # {} => k > EndOfFunctionalityKeys
          /\ k <= EndOfFunctionalityKeys =>
                conversion.functionality_k = k /\ conversion.backend_k = InvalidBit

\* C24: the alias key CompositeExplicitAutograd has been classified and
\* decomposed
C24_Witness ==
    /\ conversion.op = "decompose"
    /\ conversion.k = CompositeExplicitAutograd
    /\ conversion.alias
    /\ conversion.functionality_k = Undefined
    /\ conversion.backend_k = InvalidBit

\* C25: the ambiguous marker kernel is in no slot other than AutogradOther;
\* when it is in that slot, every other slot holds the entry that
\* computeDispatchTableEntry gives its key.
C25_AmbiguityConfinedToAutogradOther ==
    /\ \A s \in Slots \ {AutogradOther} :
          dispatchTable[s] # ambiguousAutogradOtherKernel
    /\ dispatchTable[AutogradOther] = ambiguousAutogradOtherKernel =>
          \A s \in Slots \ {AutogradOther} :
              dispatchTable[s] =
                  computeDispatchTableEntry(kernels, backendFallbackKernels, s)

\* the key sets the existence query is asked with
QueryKeySets ==
    {getRuntimeDispatchKeySet(k) : k \in StartOfAliasKeys .. EndOfAliasKeys}
    \cup {DispatchKeySet(k) : k \in {FPGA, CPU, XLA, AutogradOther, AutogradCPU}}
    \cup {getBackendKeySetFromAutograd(k) : k \in {AutogradOther, AutogradCPU}}
    \cup {FULL, EmptyKeySet}

\* the keys that are members of a key set: its functionality bits, and the
\* runtime keys made of a per-backend functionality bit and a backend bit
MembersOf(ks) == ks.f \cup KeysOf(ks)

\* C26: the existence queries see direct registrations only.
\* hasKernelForAnyDispatchKey(ks) is true exactly when a non-alias key with a
\* registration is a member of ks, so it is false while only alias keys have
\* registrations, whatever the key sets of those aliases;
\* hasKernelForDispatchKey(k) is true exactly when k is a key of kernels_:
\* from the registration of a kernel at k until the deregistration of the
\* last one.
C26_ExistenceQueriesSeeDirectRegistrations ==
    LET K == KeyOf(last.dispatch_key)
    IN  /\ \A ks \in QueryKeySets :
              hasKernelForAnyDispatchKey(kernels, ks) <=>
                  \E k \in DOMAIN kernels :
                      ~isAliasDispatchKey(k) /\ k \in MembersOf(ks)
        /\ (\A k \in DOMAIN kernels : isAliasDispatchKey(k)) =>
              \A ks \in QueryKeySets : ~hasKernelForAnyDispatchKey(kernels, ks)
        /\ \A k \in (Undefined .. EndOfAliasKeys) \ {Undefined} :
              /\ hasKernelForDispatchKey(kernels, k) <=> k \in DOMAIN kernels
              /\ hasKernelForDispatchKey(kernels, k) <=>
                    getKernelForDispatchKey(kernels, k) # <<>>
              /\ (last.op \in {"registerKernel", "deregisterKernel"} /\ k # K) =>
                    (hasKernelForDispatchKey(kernels, k) <=>
                        hasKernelForDispatchKey(last.before.kernels, k))
        /\ (last.op = "registerKernel" /\ last.error = "") =>
              hasKernelForDispatchKey(kernels, K)
        /\ last.op = "deregisterKernel" =>
              (hasKernelForDispatchKey(kernels, K) <=>
                  Len(last.before.kernels[K]) > 1)

\* C26: the only registration is one at CompositeExplicitAutograd, whose key
\* set holds CPU; the entry has a kernel for that alias key and for no key
\* of the alias's key set
C26_Witness ==
    /\ DOMAIN kernels = {CompositeExplicitAutograd}
    /\ hasKernelForDispatchKey(kernels, CompositeExplicitAutograd)
    /\ CPU \in MembersOf(getRuntimeDispatchKeySet(CompositeExplicitAutograd))
    /\ ~hasKernelForAnyDispatchKey(kernels,
            getRuntimeDispatchKeySet(CompositeExplicitAutograd))
    /\ ~hasKernelForDispatchKey(kernels, CPU)

\* C27: a registration with an absent dispatch key is stored at the front of
\* the list of CompositeImplicitAutograd and a deregistration with an absent
\* key removes from that list, so catch-all kernels and kernels registered
\* at CompositeImplicitAutograd shadow and restore one another; the kernel
\* map is the one the same call with CompositeImplicitAutograd gives, and a
\* catch-all kernel is the entry of a key only by the rule of the
\* CompositeImplicitAutograd kernel.
C27_CatchAllIsCompositeImplicitAutograd ==
    LET CIA == CompositeImplicitAutograd
        was == last.before.kernels
        list == IF CIA \in DOMAIN was THEN was[CIA] ELSE <<>>
        others(ks) == [k \in DOMAIN ks \ {CIA} |-> ks[k]]
    IN  /\ (last.op = "registerKernel" /\ last.error = ""
                /\ last.dispatch_key \in {nullopt, CIA}) =>
              /\ CIA \in DOMAIN kernels
              /\ Tail(kernels[CIA]) = list
              /\ \A i \in 1 .. Len(list) : list[i] # Head(kernels[CIA])
              /\ others(kernels) = others(was)
              /\ nullopt \notin DOMAIN kernels
              /\ getKernelForDispatchKey(kernels, CIA) = <<Head(kernels[CIA])>>
              /\ kernels =
                    registerKernel(was, last.before.dispatchTable,
                                   backendFallbackKernels, CIA,
                                   Head(kernels[CIA])).kernels
              /\ \A s \in Slots :
                    LET entry == computeDispatchTableEntryWithDebug(
                                     kernels, backendFallbackKernels, s)
                    IN  entry[1] = Head(kernels[CIA]) =>
                            /\ entry[2] = "math kernel"
                            /\ dispatchTable[s] = entry[1]
        /\ (last.op = "deregisterKernel" /\ last.dispatch_key \in {nullopt, CIA}) =>
              /\ others(kernels) = others(was)
              /\ Len(list) = 1 => CIA \notin DOMAIN kernels
              /\ Len(list) > 1 =>
                    /\ CIA \in DOMAIN kernels
                    /\ Len(kernels[CIA]) = Len(list) - 1
                    /\ \A i \in 1 .. Len(kernels[CIA]) :
                          kernels[CIA][i] =
                              IF i < last.pos THEN list[i] ELSE list[i + 1]
                    /\ last.pos = 1 =>
                          getKernelForDispatchKey(kernels, CIA) = <<list[2]>>
              /\ kernels =
                    deregisterKernel_(was, last.before.dispatchTable,
                                      backendFallbackKernels, CIA, last.pos).kernels

\* C27: a catch-all kernel was registered over a CompositeImplicitAutograd
\* kernel and has been deregistered with an absent key; the earlier kernel is
\* at the front of the list again and in the Undefined slot
C27_Witness ==
    /\ last.op = "deregisterKernel"
    /\ last.dispatch_key = nullopt
    /\ last.registration # NoEntry
    /\ CompositeImplicitAutograd \in DOMAIN last.registration.kernels
    /\ Len(last.before.kernels[CompositeImplicitAutograd]) = 2
    /\ kernels = last.registration.kernels
    /\ dispatchTable[Undefined] = Head(kernels[CompositeImplicitAutograd])
    /\ dispatchTable[Undefined] # last.before.dispatchTable[Undefined]

\* C28: in every state reached by registerKernel and deregisterKernel_
\* calls with any key argument, absent or any DispatchKey value, kernels_
\* has no entry under Undefined, and the assertion of the existence queries
\* and of checkInvariants does not fail.
C28_NoKernelUnderUndefined ==
    /\ assertNoUndefinedKernel(kernels)
    /\ last.error # "assertion"

\* C29: the Undefined entry is the kernel of
\* CompositeExplicitAutogradNonFunctional, else that of
\* CompositeExplicitAutograd, else that of CompositeImplicitAutograd, else
\* the backend fallback of the Undefined slot, else the missing kernel; and
\* after every registerKernel and deregisterKernel_ at one of the three
\* alias keys the Undefined slot holds that entry.
C29_UndefinedEntry ==
    LET front(k) == Head(kernels[k])
        expected ==
            IF CompositeExplicitAutogradNonFunctional \in DOMAIN kernels
            THEN front(CompositeExplicitAutogradNonFunctional)
            ELSE IF CompositeExplicitAutograd \in DOMAIN kernels
            THEN front(CompositeExplicitAutograd)
            ELSE IF CompositeImplicitAutograd \in DOMAIN kernels
            THEN front(CompositeImplicitAutograd)
            ELSE IF isValid(backendFallbackKernels[Undefined])
            THEN backendFallbackKernels[Undefined]
            ELSE missingKernel
    IN  /\ computeDispatchTableEntry(kernels, backendFallbackKernels, Undefined)
              = expected
        /\ (/\ last.op \in {"registerKernel", "deregisterKernel"}
            /\ KeyOf(last.dispatch_key) \in
                  {CompositeImplicitAutograd, CompositeExplicitAutograd,
                   CompositeExplicitAutogradNonFunctional})
              => dispatchTable[Undefined] = expected

\* C29: with a backend fallback of Undefined and kernels at
\* CompositeImplicitAutograd and CompositeExplicitAutograd, the kernel of
\* CompositeExplicitAutograd has been deregistered and the Undefined slot
\* has gone from it to the CompositeImplicitAutograd kernel
C29_Witness ==
    /\ last.op = "deregisterKernel"
    /\ last.dispatch_key = CompositeExplicitAutograd
    /\ isValid(backendFallbackKernels[Undefined])
    /\ DOMAIN kernels = {CompositeImplicitAutograd}
    /\ last.before.dispatchTable[Undefined] =
          Head(last.before.kernels[CompositeExplicitAutograd])
    /\ dispatchTable[Undefined] = Head(kernels[CompositeImplicitAutograd])

\* C30: while a CompositeExplicitAutograd kernel and a
\* CompositeImplicitAutograd kernel are both registered, in whichever order,
\* the slot of no autograd runtime key with a dedicated backend holds the
\* CompositeImplicitAutograd kernel.
C30_NoImplicitKernelInAutogradSlots ==
    (/\ CompositeExplicitAutograd \in DOMAIN kernels
     /\ CompositeImplicitAutograd \in DOMAIN kernels) =>
        \A b \in BackendBits \ NoDedicatedAutogradBits :
            dispatchTable[toRuntimePerBackendFunctionalityKey(
                              AutogradFunctionality, b)]
                # Head(kernels[CompositeImplicitAutograd])

\* C31: the recorded C++ signature stays until the schema is deregistered:
\* after a deregisterSchema call no signature is recorded, and registerKernel
\* with any signature passes the signature test.
C31_DeregisterSchemaResetsSignature ==
    (last.op = "deregisterSchema" /\ last.error = "") =>
        /\ cpp_signature_ = nullopt
        /\ \A cpp_signature \in CppSignatures :
              ~signatureMismatch(cpp_signature_, cpp_signature)

\* C32: listAllDispatchKeys names exactly the runtime keys whose slot holds
\* a valid kernel, each once and under its own name.
C32_ListNamesValidKeys ==
    (last.op = "reportError" /\ report.error = "NotImplementedError") =>
        /\ {report.listed[i] : i \in 1 .. Len(report.listed)} =
              {K \in RuntimeKeys : isValid(dispatchTable[K])}
        /\ \A i, j \in 1 .. Len(report.listed) :
              report.listed[i] = report.listed[j] => i = j

C34_ActiveKernelIsMostRecent ==
    LET K == KeyOf(last.dispatch_key)
        was == last.before.kernels
        list == IF K \in DOMAIN was THEN was[K] ELSE <<>>
    IN  /\ (last.op = "registerKernel" /\ last.error = "") =>
              /\ K \in DOMAIN kernels
              /\ Tail(kernels[K]) = list
              /\ \A i \in 1 .. Len(list) : list[i] # Head(kernels[K])
        /\ last.op = "deregisterKernel" =>
              /\ K \in DOMAIN kernels <=> Len(list) > 1
              /\ K \in DOMAIN kernels =>
                    /\ Len(kernels[K]) = Len(list) - 1
                    /\ \A i \in 1 .. Len(kernels[K]) :
                          kernels[K][i] =
                              IF i < last.pos THEN list[i] ELSE list[i + 1]
              /\ last.pos > 1 =>
                    /\ Head(kernels[K]) = Head(list)
                    /\ \A s \in Slots :
                          dispatchTable[s] = last.before.dispatchTable[s]

\* C35: registrations at distinct keys commute.  From every reachable entry,
\* two registerKernel calls at two different keys (runtime, per-backend
\* functionality or alias keys) give the same dispatch table, in all runtime
\* slots and the Undefined slot, in either order.
C35_RegistrationsCommute ==
    LET then(e, dispatch_key) ==
            registerKernel(e.kernels, e.dispatchTable, backendFallbackKernels,
                           dispatch_key, NewKernel(e.kernels, dispatch_key))
        e0 == [kernels |-> kernels, dispatchTable |-> dispatchTable]
    IN  \A a, b \in RegistrationKeys \ {nullopt} :
            a < b =>
                \A s \in Slots :
                    then(then(e0, a), b).dispatchTable[s] =
                        then(then(e0, b), a).dispatchTable[s]

\* C36: during one registerKernel or deregisterKernel_ call kernels_ is
\* changed once, before any slot is written; every member stored in the
\* entry of a key K belongs to the value K had before the call or to the
\* value it has after it, also when K is written several times; and a
\* thread that reads the entry during the call sees one of those two values
\* and no third one.
C36_ReaderSeesBeforeOrAfter ==
    update.pc # "idle" =>
        LET K == update.key
            after == IF K \in update.keys
                     THEN computeDispatchTableEntry(kernels,
                                                    backendFallbackKernels, K)
                     ELSE update.before[K]
            values == {update.before[K], after}
        IN  /\ \A m \in Members : update.members[m] \in values
            /\ update.pc = "done" => dispatchTable[K] = after
            /\ update.read = Members =>
                  \E kernel \in values :
                      \A m \in Members : update.seen[m] = kernel


\* C37: after every completed registerKernel, deregisterKernel_ or
\* updateFallback call, for every runtime key K and for Undefined, the
\* has-fallthrough flag of the DispatchKeyExtractor for K is set exactly
\* when the slot of K in dispatchTable_ holds a fallthrough kernel.
C37_FallthroughFlagFollowsSlot ==
    \A K \in Slots :
        operatorHasFallthroughForKey[K] = isFallthrough(dispatchTable[K])

C37_Witness ==
    /\ last.op = "deregisterKernel"
    /\ isFallthrough(last.before.dispatchTable[Undefined])
    /\ ~operatorHasFallthroughForKey[Undefined]
    /\ operatorHasFallthroughForKey[CPU]
    /\ isFallthrough(backendFallbackKernels[CPU])
    /\ ~operatorHasFallthroughForKey[AutogradCPU]
    /\ isValid(dispatchTable[AutogradCPU])


\* C38: a registerKernel call that fails on the test of the inferred
\* schema against the declared one leaves the recorded C++ signature as it
\* was: if none was recorded before the failing call, none is recorded
\* after it.
C38_FailedSchemaTestKeepsSignature ==
    (last.op = "registerKernel" /\ last.error = "schema mismatch") =>
        cpp_signature_ = last.before.cpp_signature


\* C39: after a copy- or move-assignment lhs = rhs of MaybeOwned<T> with
\* lhs and rhs distinct, lhs is borrowed exactly when rhs is borrowed,
\* whatever the two were before; assigning from a borrow makes lhs borrow
\* the same original object, and copying an owned value gives lhs its own
\* copy of the value and no borrow of rhs, which keeps its value.
C39_AssignmentKeepsBorrowedness ==
    LET lhs == maybeOwned.obj[maybeOwned.lhs]
        rhs == maybeOwned.obj[maybeOwned.rhs]
        before == maybeOwned.rhsBefore
    IN  (maybeOwned.op \in {"copy", "move"} /\ maybeOwned.lhs # maybeOwned.rhs) =>
            /\ lhs.isBorrowed_ = before.isBorrowed_
            /\ rhs.isBorrowed_ = before.isBorrowed_
            /\ before.isBorrowed_ =>
                  (lhs.borrow_ = before.borrow_ /\ lhs.own_ = -1 /\ rhs = before)
            /\ ~before.isBorrowed_ =>
                  (lhs.own_ = before.own_ /\ lhs.borrow_ = -1)
            /\ (maybeOwned.op = "copy" /\ ~before.isBorrowed_) => rhs = before

C39_Witness ==
    /\ maybeOwned.op = "copy"
    /\ maybeOwned.lhs # maybeOwned.rhs
    /\ ~maybeOwned.rhsBefore.isBorrowed_
    /\ maybeOwned.rhsBefore.own_ = 2
    /\ maybeOwned.obj[maybeOwned.lhs].own_ = 2
    /\ maybeOwned.obj[maybeOwned.rhs].own_ = 2


\* C40: in every state of a StorageImpl reached through its constructor,
\* set_resizable, set_allocator and UniqueStorageShareExternalPointer,
\* resizable() being true implies that allocator() is not null.
C40_ResizableHasAllocator ==
    (storage.constructed /\ storage.resizable_) => storage.allocator_ # nullptr

====
